---- MODULE Spec2Model ----
(***************************************************************************)
(* A model of ra_vfs: the controller (Vfs, src/src/lib.rs), the root        *)
(* registry (Roots, src/src/roots.rs) and the I/O worker (src/src/io.rs),   *)
(* together with the disk and the platform watcher they talk to.            *)
(*                                                                          *)
(* Paths are sequences of component names.  Texts are sequences of          *)
(* one-character strings.  Option<T> is a sequence of length 0 or 1.        *)
(* VfsRoot(n) and VfsFile(n) are the naturals n; since TLA+ sequences are   *)
(* 1-based, roots[n + 1] and files[n + 1] are the vectors' elements n.      *)
(***************************************************************************)
EXTENDS Integers, Sequences, FiniteSets, TLC

VARIABLES
    roots,            \* Vfs.roots: the vector Roots.roots of RootData
    files,            \* Vfs.files: Vec<VfsFileData>
    root2files,       \* Vfs.root2files: VfsRoot -> set of VfsFile
    pending_changes,  \* Vfs.pending_changes: Vec<VfsChange>
    cmdQ,             \* channel controller -> worker (Worker.sender): Task
    watcherQ,         \* channel bridge -> worker (watcher_sender): (path, ChangeKind)
    taskQ,            \* worker -> controller: the tasks given to on_task, not yet handled
    disk,             \* the file system: content of every file path, or None
    dirs,             \* the file system: the directories that exist
    watched,          \* the directories the platform watcher is subscribed to
    panicked,         \* TRUE once a controller call has panicked
    inputs,           \* the number of host calls and disk operations so far
    last,             \* history: the last operation, its arguments and its result
    life              \* the threads and channel ends that io::start sets up

vars == <<roots, files, root2files, pending_changes, cmdQ, watcherQ, taskQ,
          disk, dirs, watched, panicked, inputs, last, life>>

----------------------------------------------------------------------------
(* Bounds of the model.                                                     *)

\* The tasks sent by the worker and not yet handled are at most this many.
MaxQueue == 1
\* The watcher events not yet taken by the worker are at most this many.
MaxEvents == 2
\* The pending change log holds at most this many changes.
MaxLog == 2
\* A behaviour makes at most this many host calls and disk operations.
MaxInputs == 3

----------------------------------------------------------------------------
(* Option, sequences.                                                       *)

None == <<>>
Some(x) == <<x>>
IsSome(o) == o # <<>>
Unwrap(o) == o[1]

Last(s) == s[Len(s)]
Front(s) == SubSeq(s, 1, Len(s) - 1)
SeqContains(s, x) == \E i \in 1..Len(s) : s[i] = x

\* the value of an expression, computed once: TheOnly({ e(x) : x \in {v} })
\* is e(v)
TheOnly(S) == CHOOSE x \in S : TRUE

\* a set as a sequence, in some fixed order
RECURSIVE SetToSeq(_)
SetToSeq(S) ==
    IF S = {} THEN <<>>
    ELSE LET x == CHOOSE y \in S : TRUE IN <<x>> \o SetToSeq(S \ {x})

----------------------------------------------------------------------------
(* Text: normalize_newlines.                                                *)

CR == "\r"
LF == "\n"

Unix == "Unix"
Dos == "Dos"
\* impl Default for LineEndings
DefaultLineEndings == Unix

\* find_cr: the index (0-based) of the first CR of src
find_cr(src) ==
    IF \E i \in 1..Len(src) : src[i] = CR
    THEN Some((CHOOSE i \in 1..Len(src) :
                  src[i] = CR /\ \A j \in 1..(i - 1) : src[j] # CR) - 1)
    ELSE None

\* find_crlf: the while-let loop, from search_idx on
RECURSIVE find_crlf_from(_, _)
find_crlf_from(src, search_idx) ==
    LET rest == SubSeq(src, search_idx + 1, Len(src))
        found == find_cr(rest)
    IN  IF ~IsSome(found) THEN None
        ELSE LET idx == Unwrap(found) IN
             \* src[search_idx..].get(idx + 1) != Some(&b'\n')
             IF ~(idx + 2 <= Len(rest) /\ rest[idx + 2] = LF)
             THEN find_crlf_from(src, search_idx + idx + 1)
             ELSE Some(search_idx + idx)

\* a variant that takes every CR for the start of a CR LF pair
find_crlf_any_cr(src) == find_cr(src)

find_crlf(src) == find_crlf_from(src, 0)

\* tail.copy_within(from..to, 0) on the part of buf that starts at offset start
copy_within(buf, start, from, to) ==
    [i \in 1..Len(buf) |->
        IF i > start /\ i <= start + (to - from) THEN buf[i + from] ELSE buf[i]]

\* The loop of normalize_newlines.  tail is buf[start..]; the result is the pair
\* <<buf, gap_len>> at the break.
RECURSIVE normalize_loop(_, _, _)
normalize_loop(buf, start, gap_len) ==
    LET tail == SubSeq(buf, start + 1, Len(buf))
        found == find_crlf(SubSeq(tail, gap_len + 1, Len(tail)))
        idx == IF IsSome(found) THEN Unwrap(found) + gap_len ELSE Len(tail)
        buf2 == copy_within(buf, start, gap_len, idx)
        start2 == start + (idx - gap_len)
    IN  IF Len(buf) - start2 = gap_len
        THEN <<buf2, gap_len>>
        ELSE normalize_loop(buf2, start2, gap_len + 1)

\* normalize_newlines(src): the pair <<src afterwards, the LineEndings returned>>
normalize_newlines(src) ==
    IF ~(\E i \in 1..Len(src) : src[i] = CR)
    THEN <<src, Unix>>
    ELSE LET r == normalize_loop(src, 0, 0)
             new_len == Len(src) - r[2]
         IN  <<SubSeq(r[1], 1, new_len), Dos>>

----------------------------------------------------------------------------
(* The file system of the model.                                            *)

\* the two root directories of tests/vfs.rs (a_root, b_root)
PathA == <<"a">>
PathAB == <<"a", "b">>

\* the files that may exist on disk
FileHidden == <<"a", ".x.rs">>
FileAuthor == <<"a", "b", "AUTHOR">>
FileNested == <<"a", ".h", "n", "foo.rs">>
DiskFiles == {FileHidden, FileAuthor, FileNested}

\* a symbolic link to the directory PathA; no root of tests/vfs.rs names it
PathLink == <<"linked">>

\* a path no root contains
FileOutside == <<"c", "foo.rs">>
ApiPaths == DiskFiles \cup {FileOutside}

\* the contents a file on disk may have, and the texts an editor may send
DiskTexts == { <<"x", CR, LF>>, <<"y">> }
OverlayTexts == { <<"m", CR, LF>> }

\* fs::read_to_string(path): Ok(raw content) or Err
fs_read_to_string(path) ==
    IF path \in DOMAIN disk THEN disk[path] ELSE None

\* normalize_newlines of every content a file may have, computed once
normalized == [text \in DiskTexts |-> normalize_newlines(text)]

\* read_to_string(path): Option<(String, LineEndings)>
read_to_string(path) ==
    LET raw == fs_read_to_string(path)
    IN  IF IsSome(raw) THEN Some(normalized[Unwrap(raw)]) ELSE None

IsPrefix(base, path) ==
    Len(base) <= Len(path) /\ SubSeq(path, 1, Len(base)) = base

\* every directory on the way to a file of the model
AllDirs == { SubSeq(f, 1, n) : f \in DiskFiles, n \in 1..3 } \ DiskFiles

Parent(path) == Front(path)

\* Path::is_file
is_file(path) == path \in DOMAIN disk /\ IsSome(disk[path])
is_dir(path) == path \in dirs

\* as_os_str().len() of an absolute path: a separator before every component
RECURSIVE os_str_len(_)
os_str_len(path) ==
    IF path = <<>> THEN 0 ELSE os_str_len(Front(path)) + 1 + Len(Last(path))

----------------------------------------------------------------------------
(* Filters.  A filter is named; include_dir and include_file dispatch on    *)
(* the name, as the trait object does.                                      *)

NoopFilter == "NoopFilter"
IncludeRustFiles == "IncludeRustFiles"
Filters == {NoopFilter, IncludeRustFiles}

IGNORED_FOLDERS == {"node_modules", "target", ".git"}

\* file_stem(): the names whose stem starts with "."
stem_starts_with_dot(name) == name \in {".x.rs", ".h"}
\* extension()
extension(name) == IF name \in {".x.rs", "foo.rs"} THEN Some("rs") ELSE None

\* RelativePath::parent: None for the empty path, else the path without its
\* last component (the empty path for a path of one component)
rel_parent(rel) == IF rel = <<>> THEN None ELSE Some(Front(rel))

\* RelativePath::file_stem of the last component
hidden(rel) == IF rel = <<>> THEN FALSE ELSE stem_starts_with_dot(Last(rel))

include_dir(filter, dir_path) ==
    IF filter = NoopFilter THEN TRUE
    ELSE LET is_ignored == \E i \in 1..Len(dir_path) : dir_path[i] \in IGNORED_FOLDERS
         IN  ~is_ignored /\ ~hidden(dir_path)

include_file(filter, file_path) ==
    IF filter = NoopFilter THEN TRUE
    ELSE file_path # <<>> /\ extension(Last(file_path)) = Some("rs")

----------------------------------------------------------------------------
(* Roots (roots.rs).                                                        *)

File == "File"
Dir == "Dir"

\* rel_path(base, path): path.strip_prefix(base)
rel_path(base, path) ==
    IF IsPrefix(base, path) THEN Some(SubSeq(path, Len(base) + 1, Len(path))) ELSE None

\* paths.sort_by_key(|it| Reverse(len)): stable, longest first
RECURSIVE sort_insert(_, _)
sort_insert(sorted, e) ==
    IF sorted = <<>> THEN <<e>>
    ELSE IF os_str_len(Last(sorted).path) >= os_str_len(e.path)
         THEN Append(sorted, e)
         ELSE Append(sort_insert(Front(sorted), e), Last(sorted))

RECURSIVE sort_by_key(_)
sort_by_key(paths) ==
    IF paths = <<>> THEN <<>>
    ELSE sort_insert(sort_by_key(Front(paths)), Last(paths))

\* paths.dedup(): drops an entry equal (by path) to the one before it
RECURSIVE dedup(_)
dedup(paths) ==
    IF Len(paths) <= 1 THEN paths
    ELSE LET d == dedup(Front(paths))
         IN  IF Last(d).path = Last(paths).path THEN d ELSE Append(d, Last(paths))

\* filter_map over a sequence of Options
RECURSIVE flatten(_)
flatten(opts) ==
    IF opts = <<>> THEN <<>> ELSE flatten(Front(opts)) \o Last(opts)

\* entry.path.canonicalize(): the model's file system has one symbolic link,
\* PathLink, which points to the directory PathA
canonicalize(path) ==
    IF IsPrefix(PathLink, path)
    THEN Some(PathA \o SubSeq(path, Len(PathLink) + 1, Len(path)))
    ELSE Some(path)

RootData_new(entry, excluded_dirs) ==
    LET canonical_path == canonicalize(entry.path)
    IN  [entry |-> entry,
         canonical_path |-> IF Some(entry.path) = canonical_path THEN None
                            ELSE canonical_path,
         excluded_dirs |-> excluded_dirs]

Roots_new(entries) ==
    LET paths == dedup(sort_by_key(entries))
        nested_roots ==
            [i \in 1..Len(paths) |->
                flatten([j \in 1..(i - 1) |-> rel_path(paths[i].path, paths[j].path)])]
    IN  [i \in 1..Len(paths) |-> RootData_new(paths[i], nested_roots[i])]

Roots_len == Len(roots)
\* Roots::iter
RootIds == 0..(Roots_len - 1)
Roots_root(root) == roots[root + 1]
Roots_path(root) == Roots_root(root).entry.path

is_included(data, rel, expected) ==
    IF SeqContains(data.excluded_dirs, rel) THEN FALSE
    ELSE LET p == rel_parent(rel)
             parent_included ==
                 IF IsSome(p) THEN include_dir(data.entry.filter, Unwrap(p)) ELSE TRUE
         IN  IF ~parent_included THEN FALSE
             ELSE IF expected = File THEN include_file(data.entry.filter, rel)
                  ELSE include_dir(data.entry.filter, rel)

to_relative_path(base, path, data, expected) ==
    LET rel == rel_path(base, path)
    IN  IF ~IsSome(rel) THEN None
        ELSE IF Unwrap(rel) = <<>> THEN rel
        ELSE IF is_included(data, Unwrap(rel), expected) THEN rel
        ELSE None

\* Roots::contains: the root's path first, then its canonical path
Roots_contains(root, path, expected) ==
    LET data == Roots_root(root)
        first == to_relative_path(data.entry.path, path, data, expected)
    IN  IF IsSome(first) THEN first
        ELSE IF IsSome(data.canonical_path)
             THEN to_relative_path(Unwrap(data.canonical_path), path, data, expected)
             ELSE None

\* Roots::find: the first root, in index order, that contains the path
Roots_find(path, expected) ==
    LET hits == { r \in RootIds : IsSome(Roots_contains(r, path, expected)) }
    IN  IF hits = {} THEN None
        ELSE LET root == CHOOSE r \in hits : \A q \in hits : r <= q
             IN  Some(<<root, Unwrap(Roots_contains(root, path, expected))>>)

----------------------------------------------------------------------------
(* The controller (lib.rs).  Its methods are operators on the record        *)
(* st = [files, root2files, pending_changes, panicked]; a method that       *)
(* returns a value yields [st |-> the state afterwards, ret |-> the value]. *)

Vfs == [files |-> files, root2files |-> root2files,
        pending_changes |-> pending_changes, panicked |-> panicked]

\* VfsChange
AddRoot(root, fs) == [kind |-> "AddRoot", root |-> root, files |-> fs]
AddFile(root, file, path, text) ==
    [kind |-> "AddFile", root |-> root, file |-> file, path |-> path, text |-> text]
RemoveFile(root, file, path) ==
    [kind |-> "RemoveFile", root |-> root, file |-> file, path |-> path]
ChangeFile(file, text) == [kind |-> "ChangeFile", file |-> file, text |-> text]

\* TaskResult
BulkLoadRoot(root, fs) == [kind |-> "BulkLoadRoot", root |-> root, files |-> fs]
SingleFile(root, path, text, line_endings) ==
    [kind |-> "SingleFile", root |-> root, path |-> path, text |-> text,
     line_endings |-> line_endings]

\* Vfs::file
file_data(st, file) == st.files[file + 1]

push_change(st, change) ==
    [st EXCEPT !.pending_changes = Append(@, change)]

panic(st) == [st EXCEPT !.panicked = TRUE]

\* raw_* calls change the state of VFS, but do not emit events.

\* a variant that takes the slot of a removed file when there is one
raw_add_file_reuses_slot(st, root, path, text, line_endings, is_overlayed) ==
    LET data == [root |-> root, path |-> path, text |-> text,
                 line_endings |-> line_endings, is_overlayed |-> is_overlayed]
        free == { f \in 0..(Len(st.files) - 1) :
                    \A r \in DOMAIN st.root2files : f \notin st.root2files[r] }
        file == IF free = {} THEN Len(st.files) ELSE CHOOSE f \in free : TRUE
    IN  [st |-> [st EXCEPT !.files = IF free = {} THEN Append(@, data)
                                     ELSE [@ EXCEPT ![file + 1] = data],
                           !.root2files[root] = @ \cup {file}],
         ret |-> file]

\* a variant that does not enter the new file in its root's set
raw_add_file_unindexed(st, root, path, text, line_endings, is_overlayed) ==
    LET data == [root |-> root, path |-> path, text |-> text,
                 line_endings |-> line_endings, is_overlayed |-> is_overlayed]
    IN  [st |-> [st EXCEPT !.files = Append(@, data)], ret |-> Len(st.files)]

raw_add_file(st, root, path, text, line_endings, is_overlayed) ==
    LET data == [root |-> root, path |-> path, text |-> text,
                 line_endings |-> line_endings, is_overlayed |-> is_overlayed]
        file == Len(st.files)
    IN  [st |-> [st EXCEPT !.files = Append(@, data),
                           !.root2files[root] = @ \cup {file}],
         ret |-> file]

raw_change_file(st, file, new_text, is_overlayed) ==
    [st EXCEPT !.files[file + 1].text = new_text,
               !.files[file + 1].is_overlayed = is_overlayed]

\* a variant that leaves the file in its root's set
raw_remove_file_keeps_index(st, file) ==
    [st EXCEPT !.files[file + 1].text = <<>>, !.files[file + 1].path = <<>>]

raw_remove_file(st, file) ==
    LET root == file_data(st, file).root
        removed == file \in st.root2files[root]
        st2 == [st EXCEPT !.files[file + 1].text = <<>>,
                          !.files[file + 1].path = <<>>,
                          !.root2files[root] = @ \ {file}]
    IN  IF removed THEN st2 ELSE panic(st2)

\* *_event calls change the state of VFS and push a change onto pending changes.

\* a variant that adds the file without logging it
add_file_event_silent(st, root, path, text, line_endings, is_overlay) ==
    LET r == raw_add_file(st, root, path, text, line_endings, is_overlay)
    IN  [st |-> r.st, ret |-> Some(r.ret)]

add_file_event(st, root, path, text, line_endings, is_overlay) ==
    LET r == raw_add_file(st, root, path, text, line_endings, is_overlay)
    IN  [st |-> push_change(r.st, AddFile(root, r.ret, path, text)),
         ret |-> Some(r.ret)]

\* a variant with the text-equality gate of handle_task
change_file_event_gated(st, file, text, is_overlay) ==
    IF file_data(st, file).text = text
    THEN raw_change_file(st, file, text, is_overlay)
    ELSE push_change(raw_change_file(st, file, text, is_overlay), ChangeFile(file, text))

change_file_event(st, file, text, is_overlay) ==
    push_change(raw_change_file(st, file, text, is_overlay), ChangeFile(file, text))

remove_file_event(st, root, path, file) ==
    LET st2 == raw_remove_file(st, file)
    IN  IF st2.panicked THEN st2 ELSE push_change(st2, RemoveFile(root, file, path))

\* find_file: the first file of the root's set with this path.  The set is a hash
\* set, so with several matches any of them may come first.
find_file(st, root, path) ==
    LET hits == { f \in st.root2files[root] : file_data(st, f).path = path }
    IN  IF hits = {} THEN None ELSE Some(CHOOSE f \in hits : TRUE)

\* find_root: Option<(root, rel_path, Option<file>)>
find_root(st, path) ==
    LET found == Roots_find(path, File)
    IN  IF ~IsSome(found) THEN None
        ELSE LET root == Unwrap(found)[1]
                 rel == Unwrap(found)[2]
             IN  Some(<<root, rel, find_file(st, root, rel)>>)

\* rel_path.to_path(root_path)
to_path(rel, base) == base \o rel

path2file(st, path) ==
    LET found == find_root(st, path)
    IN  IF IsSome(found) /\ IsSome(Unwrap(found)[3]) THEN Unwrap(found)[3] ELSE None

\* read_to_string(path).unwrap_or_default()
unwrap_or_default(read) ==
    IF IsSome(read) THEN Unwrap(read) ELSE <<<<>>, DefaultLineEndings>>

\* load, the file is not there: tl is the pair (text, line_endings) read
load_new(st, root, rel, tl) ==
    LET r == raw_add_file(st, root, rel, tl[1], tl[2], FALSE)
    IN  [st |-> push_change(r.st, AddFile(root, r.ret, rel, tl[1])),
         ret |-> Some(r.ret)]

\* a variant that reads and inserts even when the file is there
load_found_always_new(st, path, found) ==
    IF ~IsSome(found) THEN [st |-> st, ret |-> None]
    ELSE load_new(st, Unwrap(found)[1], Unwrap(found)[2],
                  unwrap_or_default(read_to_string(path)))

\* load, with found the result of find_root: (root, rel_path, file)
load_found(st, path, found) ==
    IF ~IsSome(found) THEN [st |-> st, ret |-> None]
    ELSE IF IsSome(Unwrap(found)[3]) THEN [st |-> st, ret |-> Unwrap(found)[3]]
    ELSE load_new(st, Unwrap(found)[1], Unwrap(found)[2],
                  unwrap_or_default(read_to_string(path)))

load(st, path) == load_found(st, path, find_root(st, path))

\* add_file_overlay, with n the pair normalize_newlines leaves (text,
\* line_endings) and found the result of find_root
add_file_overlay_found(st, n, found) ==
    IF ~IsSome(found) THEN [st |-> st, ret |-> None]
    ELSE IF IsSome(Unwrap(found)[3])
    THEN [st |-> change_file_event(st, Unwrap(Unwrap(found)[3]), n[1], TRUE),
          ret |-> Unwrap(found)[3]]
    ELSE add_file_event(st, Unwrap(found)[1], Unwrap(found)[2], n[1], n[2], TRUE)

\* a variant that skips normalize_newlines
add_file_overlay_raw(st, path, text) ==
    add_file_overlay_found(st, <<text, Unix>>, find_root(st, path))

add_file_overlay(st, path, text) ==
    add_file_overlay_found(st, normalize_newlines(text), find_root(st, path))

\* change_file_overlay, with the normalized text and the result of find_root
\* a variant that takes a file which was not added for nothing to do
change_file_overlay_found_lenient(st, n, found) ==
    IF ~IsSome(found) THEN st
    ELSE IF ~IsSome(Unwrap(found)[3]) THEN st
    ELSE change_file_event(st, Unwrap(Unwrap(found)[3]), n[1], TRUE)

change_file_overlay_found(st, n, found) ==
    IF ~IsSome(found) THEN st
    \* file.expect("can't change a file which wasn't added")
    ELSE IF ~IsSome(Unwrap(found)[3]) THEN panic(st)
    ELSE change_file_event(st, Unwrap(Unwrap(found)[3]), n[1], TRUE)

change_file_overlay(st, path, new_text) ==
    change_file_overlay_found(st, normalize_newlines(new_text), find_root(st, path))

\* remove_file_overlay, the file is there: text is what fs::read_to_string gave
remove_file_overlay_read(st, root, rel, file, text) ==
    [st |-> IF IsSome(text)
            THEN change_file_event(st, file, Unwrap(text), FALSE)
            ELSE remove_file_event(st, root, rel, file),
     ret |-> Some(file)]

\* remove_file_overlay, with found the result of find_root
remove_file_overlay_found(st, found) ==
    IF ~IsSome(found) THEN [st |-> st, ret |-> None]
    \* file.expect("can't remove a file which wasn't added")
    ELSE IF ~IsSome(Unwrap(found)[3]) THEN [st |-> panic(st), ret |-> None]
    ELSE remove_file_overlay_read(st, Unwrap(found)[1], Unwrap(found)[2],
            Unwrap(Unwrap(found)[3]),
            fs_read_to_string(to_path(Unwrap(found)[2], Roots_path(Unwrap(found)[1]))))

remove_file_overlay(st, path) == remove_file_overlay_found(st, find_root(st, path))

\* a variant that returns the log without draining it
commit_changes_keeps_log(st) ==
    [st |-> st, ret |-> st.pending_changes]

commit_changes(st) ==
    [st |-> [st EXCEPT !.pending_changes = <<>>], ret |-> st.pending_changes]

\* handle_task, BulkLoadRoot: the loop over the first n incoming files.  The
\* result is [st, cur_files].  existing is the snapshot taken before the loop.
RECURSIVE bulk_load_loop(_, _, _, _, _)
bulk_load_loop(st, root, existing, fs, n) ==
    IF n = 0 THEN [st |-> st, cur_files |-> <<>>]
    ELSE LET before == bulk_load_loop(st, root, existing, fs, n - 1)
             path == fs[n][1]
             text == fs[n][2]
             line_endings == fs[n][3]
             known == { f \in existing : file_data(st, f).path = path }
         IN  IF known # {}
             THEN LET file == CHOOSE f \in known : TRUE
                  IN  [st |-> before.st,
                       cur_files |-> Append(before.cur_files,
                                            <<file, path, file_data(before.st, file).text>>)]
             ELSE LET r == raw_add_file(before.st, root, path, text, line_endings, FALSE)
                  IN  [st |-> r.st,
                       cur_files |-> Append(before.cur_files, <<r.ret, path, text>>)]

\* a variant that lists only the files it has just added
handle_bulk_load_root_new_only(st, root, fs) ==
    LET existing == st.root2files[root]
        r == bulk_load_loop(st, root, existing, fs, Len(fs))
    IN  push_change(r.st, AddRoot(root, SelectSeq(r.cur_files,
                                                  LAMBDA e : e[1] \notin existing)))

\* a variant that does not merge with the files the root already has
handle_bulk_load_root_no_merge(st, root, fs) ==
    LET r == bulk_load_loop(st, root, {}, fs, Len(fs))
    IN  push_change(r.st, AddRoot(root, r.cur_files))

handle_bulk_load_root(st, root, fs) ==
    LET existing == st.root2files[root]
        r == bulk_load_loop(st, root, existing, fs, Len(fs))
    IN  push_change(r.st, AddRoot(root, r.cur_files))

\* a variant that never sees an overlay
existing_is_overlayed_never(st, existing_file) == FALSE

\* existing_file.map(|file| self.file(file).is_overlayed) == Some(true)
existing_is_overlayed(st, existing_file) ==
    IsSome(existing_file) /\ file_data(st, Unwrap(existing_file)).is_overlayed

\* a variant without the text-equality gate of the last row
handle_single_file_no_gate(st, root, path, text, line_endings) ==
    LET existing_file == find_file(st, root, path)
    IN  IF existing_is_overlayed(st, existing_file) THEN st
        ELSE IF IsSome(existing_file) /\ ~IsSome(text)
             THEN remove_file_event(st, root, path, Unwrap(existing_file))
        ELSE IF ~IsSome(existing_file) /\ IsSome(text)
             THEN add_file_event(st, root, path, Unwrap(text), line_endings, FALSE).st
        ELSE IF IsSome(existing_file) /\ IsSome(text)
             THEN change_file_event(st, Unwrap(existing_file), Unwrap(text), FALSE)
        ELSE st

handle_single_file(st, root, path, text, line_endings) ==
    LET existing_file == find_file(st, root, path)
    IN  IF existing_is_overlayed(st, existing_file) THEN st
        ELSE IF IsSome(existing_file) /\ ~IsSome(text)
             THEN remove_file_event(st, root, path, Unwrap(existing_file))
        ELSE IF ~IsSome(existing_file) /\ IsSome(text)
             THEN add_file_event(st, root, path, Unwrap(text), line_endings, FALSE).st
        ELSE IF IsSome(existing_file) /\ IsSome(text)
             THEN IF file_data(st, Unwrap(existing_file)).text # Unwrap(text)
                  THEN change_file_event(st, Unwrap(existing_file), Unwrap(text), FALSE)
                  ELSE st
        ELSE st

handle_task(st, task) ==
    IF task.kind = "BulkLoadRoot"
    THEN handle_bulk_load_root(st, task.root, task.files)
    ELSE handle_single_file(st, task.root, task.path, task.text, task.line_endings)

----------------------------------------------------------------------------
(* The I/O worker (io.rs).                                                  *)

Create == "Create"
Write == "Write"
Remove == "Remove"

\* WalkDir::new(dir).filter_entry(contains(root, path, file type)): the
\* directories it yields.  A directory that fails the predicate is not entered.
RECURSIVE walk_dirs(_, _)
walk_dirs(dir, root) ==
    IF ~(is_dir(dir) /\ IsSome(Roots_contains(root, dir, Dir))) THEN {}
    ELSE {dir} \cup UNION { walk_dirs(sub, root) :
                              sub \in { d \in dirs : Len(d) > 0 /\ Parent(d) = dir } }

\* ... and the files it yields
walk_files(dir, root) ==
    { f \in DiskFiles : /\ is_file(f)
                        /\ Parent(f) \in walk_dirs(dir, root)
                        /\ IsSome(Roots_contains(root, f, File)) }

\* watch_recursive: [files |-> the relative paths found, watch |-> the
\* directories given to watch_one]
watch_recursive(dir, root) ==
    TheOnly({ [files |-> [i \in 1..Len(found) |->
                            Unwrap(Roots_contains(root, found[i], File))],
               watch |-> walk_dirs(dir, root)] :
              found \in { SetToSeq(yielded) : yielded \in {walk_files(dir, root)} } })

\* the texts of the paths that can be read, as BulkLoadRoot carries them
RECURSIVE read_files(_, _)
read_files(paths, root_path) ==
    IF paths = <<>> THEN <<>>
    ELSE LET path == Last(paths)
             read == read_to_string(to_path(path, root_path))
         IN  read_files(Front(paths), root_path)
             \o (IF IsSome(read) THEN << <<path, Unwrap(read)[1], Unwrap(read)[2]>> >>
                 ELSE <<>>)

\* a variant that sends nothing for a root without files
watch_root_skips_empty(root) ==
    TheOnly({ [tasks |-> IF w.files = <<>> THEN <<>>
                         ELSE << BulkLoadRoot(root, read_files(w.files, Roots_path(root))) >>,
               watch |-> w.watch] :
              w \in {watch_recursive(Roots_path(root), root)} })

\* watch_root: [tasks |-> the tasks sent, watch |-> the directories subscribed]
watch_root(root) ==
    TheOnly({ [tasks |-> << BulkLoadRoot(root, read_files(w.files, Roots_path(root))) >>,
               watch |-> w.watch] :
              w \in {watch_recursive(Roots_path(root), root)} })

\* the SingleFile for one path, read now
single_file_task(root, rel, abs_path) ==
    LET read == read_to_string(abs_path)
    IN  IF IsSome(read)
        THEN SingleFile(root, rel, Some(Unwrap(read)[1]), Unwrap(read)[2])
        ELSE SingleFile(root, rel, None, DefaultLineEndings)

\* a variant that takes the word of a Remove event and does not read the file
handle_change_trusts_kind(path, kind) ==
    LET ft == IF is_file(path) THEN File ELSE Dir
        found == Roots_find(path, ft)
    IN  IF ~IsSome(found) THEN [tasks |-> <<>>, watch |-> {}]
        ELSE LET root == Unwrap(found)[1]
                 rel == Unwrap(found)[2]
             IN  IF kind = Create
                 THEN LET w == IF ft = Dir THEN watch_recursive(path, root)
                               ELSE [files |-> <<rel>>, watch |-> {}]
                      IN  [tasks |-> [i \in 1..Len(w.files) |->
                                        single_file_task(root, w.files[i],
                                            to_path(w.files[i], Roots_path(root)))],
                           watch |-> w.watch]
                 ELSE IF kind = Remove
                 THEN [tasks |-> << SingleFile(root, rel, None, DefaultLineEndings) >>,
                       watch |-> {}]
                 ELSE [tasks |-> << single_file_task(root, rel, path) >>, watch |-> {}]

\* handle_change: [tasks, watch]
\* a variant that answers a created directory with one bulk load
handle_change_create_bulk(path, kind) ==
    LET ft == IF is_file(path) THEN File ELSE Dir
        found == Roots_find(path, ft)
    IN  IF ~IsSome(found) THEN [tasks |-> <<>>, watch |-> {}]
        ELSE LET root == Unwrap(found)[1]
                 rel == Unwrap(found)[2]
             IN  IF kind = Create /\ ft = Dir
                 THEN LET w == watch_recursive(path, root)
                      IN  [tasks |-> << BulkLoadRoot(root,
                                            read_files(w.files, Roots_path(root))) >>,
                           watch |-> w.watch]
                 ELSE [tasks |-> << single_file_task(root, rel, path) >>, watch |-> {}]

handle_change(path, kind) ==
    LET ft == IF is_file(path) THEN File ELSE Dir
        found == Roots_find(path, ft)
    IN  IF ~IsSome(found) THEN [tasks |-> <<>>, watch |-> {}]
        ELSE LET root == Unwrap(found)[1]
                 rel == Unwrap(found)[2]
             IN  IF kind = Create
                 THEN LET w == IF ft = Dir THEN watch_recursive(path, root)
                               ELSE [files |-> <<rel>>, watch |-> {}]
                      IN  [tasks |-> [i \in 1..Len(w.files) |->
                                        single_file_task(root, w.files[i],
                                            to_path(w.files[i], Roots_path(root)))],
                           watch |-> w.watch]
                 ELSE [tasks |-> << single_file_task(root, rel, path) >>, watch |-> {}]

----------------------------------------------------------------------------
(* The platform watcher and the bridge.                                     *)

\* the directories of path that do not exist yet, outermost first
missing_dirs(path) ==
    LET ns == { n \in 1..(Len(path) - 1) : SubSeq(path, 1, n) \notin dirs }
    IN  { SubSeq(path, 1, n) : n \in ns }

\* the event the watcher raises when path is written with its missing
\* directories created first: a subscription is per directory, not recursive,
\* so only what appears in a subscribed directory is reported
write_events(path) ==
    LET missing == missing_dirs(path)
        top == IF missing = {} THEN path
               ELSE CHOOSE d \in missing : \A e \in missing : Len(d) <= Len(e)
    IN  IF Parent(top) \notin watched THEN <<>>
        ELSE IF top = path /\ is_file(path) THEN << <<path, Write>> >>
        ELSE << <<top, Create>> >>

remove_events(path) ==
    IF Parent(path) \in watched THEN << <<path, Remove>> >> ELSE <<>>

----------------------------------------------------------------------------
(* The state machine.                                                       *)

\* io::start has run: the worker thread is in its select loop with a watcher,
\* the bridge thread runs, no raw event waits, the Vfs holds the command sender
Running ==
    [sender |-> TRUE, worker |-> "loop", watcher |-> "some", bridge |-> "run",
     notifyQ |-> <<>>, at_drop |-> "", renamed |-> <<>>]

NoOp == [op |-> "none", path |-> <<>>, text |-> <<>>, ret |-> <<>>, task |-> <<>>]

Called(op, path, text, ret) ==
    [op |-> op, path |-> path, text |-> text, ret |-> ret, task |-> <<>>]

\* the root entries given to Vfs::new, as in tests/vfs.rs
RootEntries(fa, fb) ==
    << [path |-> PathA, filter |-> fa], [path |-> PathAB, filter |-> fb] >>

Init ==
    /\ \E fa \in Filters, fb \in Filters : roots = Roots_new(RootEntries(fa, fb))
    /\ files = <<>>
    /\ root2files = [r \in RootIds |-> {}]
    /\ pending_changes = <<>>
    /\ cmdQ = [i \in 1..Roots_len |-> i - 1]
    /\ watcherQ = <<>>
    /\ taskQ = <<>>
    /\ disk = [f \in DiskFiles |-> None]
    /\ dirs = {PathA, PathAB}
    /\ watched = {}
    /\ panicked = FALSE
    /\ inputs = 0
    /\ life = Running
    /\ last = NoOp

\* one more host call or disk operation
Input ==
    /\ inputs < MaxInputs
    /\ inputs' = inputs + 1

\* the controller's state after a call, kept within the bounds
SetVfs(st) ==
    /\ Len(st.pending_changes) <= MaxLog
    /\ files' = st.files
    /\ root2files' = st.root2files
    /\ pending_changes' = st.pending_changes
    /\ panicked' = st.panicked

\* last.text of a load is the text it read for a file it added, empty when
\* it added none
Load(path) ==
    /\ ~panicked
    /\ Input
    /\ \E r \in {load(Vfs, path)} :
        /\ SetVfs(r.st)
        /\ last' = Called("load", path,
                          IF Len(r.st.files) > Len(files) THEN Last(r.st.files).text
                          ELSE <<>>,
                          r.ret)
    /\ UNCHANGED <<life, roots, cmdQ, watcherQ, taskQ, disk, dirs, watched>>

AddFileOverlay(path, text) ==
    /\ ~panicked
    /\ Input
    /\ \E r \in {add_file_overlay(Vfs, path, text)} :
        SetVfs(r.st) /\ last' = Called("add_file_overlay", path, text, r.ret)
    /\ UNCHANGED <<life, roots, cmdQ, watcherQ, taskQ, disk, dirs, watched>>

ChangeFileOverlay(path, text) ==
    /\ ~panicked
    /\ Input
    /\ SetVfs(change_file_overlay(Vfs, path, text))
    /\ last' = Called("change_file_overlay", path, text, <<>>)
    /\ UNCHANGED <<life, roots, cmdQ, watcherQ, taskQ, disk, dirs, watched>>

RemoveFileOverlay(path) ==
    /\ ~panicked
    /\ Input
    /\ \E r \in {remove_file_overlay(Vfs, path)} :
        SetVfs(r.st) /\ last' = Called("remove_file_overlay", path, <<>>, r.ret)
    /\ UNCHANGED <<life, roots, cmdQ, watcherQ, taskQ, disk, dirs, watched>>

CommitChanges ==
    /\ ~panicked
    /\ \E r \in {commit_changes(Vfs)} :
        SetVfs(r.st) /\ last' = Called("commit_changes", <<>>, <<>>, r.ret)
    /\ UNCHANGED <<life, inputs, roots, cmdQ, watcherQ, taskQ, disk, dirs, watched>>

\* the host forwards the worker's tasks to handle_task in the order produced
HandleTask ==
    /\ ~panicked
    /\ taskQ # <<>>
    /\ SetVfs(handle_task(Vfs, Head(taskQ)))
    /\ taskQ' = Tail(taskQ)
    /\ last' = [NoOp EXCEPT !.op = "handle_task", !.task = Some(Head(taskQ))]
    /\ UNCHANGED <<life, inputs, roots, cmdQ, watcherQ, disk, dirs, watched>>

\* a variant that subscribes the directories it walks although it has no watcher
WorkerAddRoot_subscribes_anyway ==
    /\ life.worker = "loop"
    /\ cmdQ # <<>>
    /\ \E r \in {watch_root(Head(cmdQ))} :
           /\ Len(taskQ) + Len(r.tasks) <= MaxQueue
           /\ taskQ' = taskQ \o r.tasks
           /\ watched' = watched \cup r.watch
    /\ cmdQ' = Tail(cmdQ)
    /\ last' = NoOp
    /\ UNCHANGED <<life, inputs, roots, files, root2files, pending_changes, watcherQ, disk, dirs, panicked>>

\* the worker's select loop takes a command ...
WorkerAddRoot ==
    /\ life.worker = "loop"
    /\ cmdQ # <<>>
    /\ \E r \in {watch_root(Head(cmdQ))} :
           /\ Len(taskQ) + Len(r.tasks) <= MaxQueue
           /\ taskQ' = taskQ \o r.tasks
           /\ watched' = IF life.watcher = "some" THEN watched \cup r.watch ELSE watched
    /\ cmdQ' = Tail(cmdQ)
    /\ last' = NoOp
    /\ UNCHANGED <<life, inputs, roots, files, root2files, pending_changes, watcherQ, disk, dirs, panicked>>

\* ... or a watcher event
WorkerHandleChange ==
    /\ life.worker = "loop"
    /\ watcherQ # <<>>
    /\ \E r \in {handle_change(Head(watcherQ)[1], Head(watcherQ)[2])} :
           /\ Len(taskQ) + Len(r.tasks) <= MaxQueue
           /\ taskQ' = taskQ \o r.tasks
           /\ watched' = IF life.watcher = "some" THEN watched \cup r.watch ELSE watched
    /\ watcherQ' = Tail(watcherQ)
    /\ last' = NoOp
    /\ UNCHANGED <<life, inputs, roots, files, root2files, pending_changes, cmdQ, disk, dirs, panicked>>

\* somebody writes a file (creating it and its directories if need be)
DiskWrite(path, text) ==
    /\ Input
    /\ LET ev == write_events(path)
       IN  /\ Len(watcherQ) + Len(ev) <= MaxEvents
           /\ watcherQ' = watcherQ \o ev
    /\ disk' = [disk EXCEPT ![path] = Some(text)]
    /\ dirs' = dirs \cup missing_dirs(path)
    /\ last' = NoOp
    /\ UNCHANGED <<life, roots, files, root2files, pending_changes, cmdQ, taskQ, watched, panicked>>

\* somebody deletes a file
DiskRemove(path) ==
    /\ Input
    /\ is_file(path)
    /\ LET ev == remove_events(path)
       IN  /\ Len(watcherQ) + Len(ev) <= MaxEvents
           /\ watcherQ' = watcherQ \o ev
    /\ disk' = [disk EXCEPT ![path] = None]
    /\ last' = NoOp
    /\ UNCHANGED <<life, roots, files, root2files, pending_changes, cmdQ, taskQ, dirs, watched, panicked>>

Next ==
    \/ \E path \in ApiPaths : Load(path)
    \/ \E path \in ApiPaths, text \in OverlayTexts : AddFileOverlay(path, text)
    \/ \E path \in ApiPaths, text \in OverlayTexts : ChangeFileOverlay(path, text)
    \/ \E path \in ApiPaths : RemoveFileOverlay(path)
    \/ CommitChanges
    \/ HandleTask
    \/ WorkerAddRoot
    \/ WorkerHandleChange
    \/ \E path \in DiskFiles, text \in DiskTexts : DiskWrite(path, text)
    \/ \E path \in DiskFiles : DiskRemove(path)

Spec == Init /\ [][Next]_vars

\* The behaviours in which the host makes no load and no overlay call: the
\* disk changes, the worker reports, the host forwards the tasks and commits.
NextDiskOnly ==
    \/ CommitChanges
    \/ HandleTask
    \/ WorkerAddRoot
    \/ WorkerHandleChange
    \/ \E path \in DiskFiles, text \in DiskTexts : DiskWrite(path, text)
    \/ \E path \in DiskFiles : DiskRemove(path)

SpecDiskOnly == Init /\ [][NextDiskOnly]_vars

\* somebody writes a file again with the content it has: the disk stays as
\* it is and the watcher reports the write
DiskTouch(path) ==
    /\ IsSome(disk[path])
    /\ LET ev == write_events(path)
       IN  /\ ev # <<>>
           /\ Len(watcherQ) + Len(ev) <= MaxEvents
           /\ watcherQ' = watcherQ \o ev
    /\ last' = NoOp
    /\ UNCHANGED <<life, inputs, roots, files, root2files, pending_changes, cmdQ, taskQ,
                   disk, dirs, watched, panicked>>

\* Vfs::new over a disk that holds any of the files already
InitWatching ==
    /\ \E fa \in Filters, fb \in Filters : roots = Roots_new(RootEntries(fa, fb))
    /\ files = <<>>
    /\ root2files = [r \in RootIds |-> {}]
    /\ pending_changes = <<>>
    /\ cmdQ = [i \in 1..Roots_len |-> i - 1]
    /\ watcherQ = <<>>
    /\ taskQ = <<>>
    /\ disk \in [DiskFiles -> {None} \cup { Some(t) : t \in DiskTexts }]
    /\ dirs = {PathA, PathAB}
                \cup UNION { { SubSeq(f, 1, n) : n \in 1..(Len(f) - 1) } :
                                f \in { g \in DiskFiles : IsSome(disk[g]) } }
    /\ watched = {}
    /\ panicked = FALSE
    /\ inputs = 0
    /\ life = Running
    /\ last = NoOp

\* the worker and the host while watcher events keep arriving
NextWatching ==
    \/ CommitChanges
    \/ HandleTask
    \/ WorkerAddRoot
    \/ WorkerHandleChange
    \/ \E path \in DiskFiles : DiskTouch(path)

\* select! takes a ready operation at random (io.rs:111-134), so a command
\* that is ready again and again is taken in the end; the host forwards every
\* task to handle_task and drains the log
FairSpec ==
    /\ InitWatching
    /\ [][NextWatching]_vars
    /\ SF_vars(WorkerAddRoot)
    /\ WF_vars(HandleTask)
    /\ WF_vars(CommitChanges)

----------------------------------------------------------------------------
(* Vfs::new on any list of root entries.                                    *)

\* the paths of tests::vfs_deduplicates, and a shorter one
PathFoo == <<"foo">>
PathBar == <<"bar">>
EntryPaths == {PathFoo, PathBar, PathA}

\* A list of root entries has at most this many entries.
MaxRoots == 4

\* the lists of entries the host may give to Vfs::new
EntryLists ==
    UNION { [1..n -> { [path |-> p, filter |-> NoopFilter] : p \in EntryPaths }] :
              n \in 0..MaxRoots }

\* the host holds a list of entries and has not yet built the Vfs
InitNew ==
    /\ \E entries \in EntryLists : last = Called("entries", entries, <<>>, <<>>)
    /\ roots = <<>>
    /\ files = <<>>
    /\ root2files = <<>>
    /\ pending_changes = <<>>
    /\ cmdQ = <<>>
    /\ watcherQ = <<>>
    /\ taskQ = <<>>
    /\ disk = [f \in DiskFiles |-> None]
    /\ dirs = {}
    /\ watched = {}
    /\ panicked = FALSE
    /\ inputs = 0
    /\ life = Running

\* Vfs::new(entries): the registry, an empty file set and one AddRoot command
\* per root; the result is the list of the roots' handles
VfsNew ==
    /\ last.op = "entries"
    /\ roots' = Roots_new(last.path)
    /\ root2files' = [r \in 0..(Len(roots') - 1) |-> {}]
    /\ cmdQ' = [i \in 1..Len(roots') |-> i - 1]
    /\ last' = Called("new", last.path, <<>>, [i \in 1..Len(roots') |-> i - 1])
    /\ UNCHANGED <<life, files, pending_changes, watcherQ, taskQ, disk, dirs, watched,
                   panicked, inputs>>

SpecNew == InitNew /\ [][VfsNew]_vars

----------------------------------------------------------------------------
(* normalize_newlines on any text.                                          *)

\* the bytes a text is made of: CR, LF and one other
Bytes == {CR, LF, "a"}

\* A text given to normalize_newlines has at most this many bytes.
MaxLen == 4

Texts == UNION { [1..n -> Bytes] : n \in 0..MaxLen }

\* a caller holds a text
InitNormalize ==
    /\ \E text \in Texts : last = Called("text", <<>>, text, <<>>)
    /\ roots = <<>>
    /\ files = <<>>
    /\ root2files = <<>>
    /\ pending_changes = <<>>
    /\ cmdQ = <<>>
    /\ watcherQ = <<>>
    /\ taskQ = <<>>
    /\ disk = [f \in DiskFiles |-> None]
    /\ dirs = {}
    /\ watched = {}
    /\ panicked = FALSE
    /\ inputs = 0
    /\ life = Running

\* normalize_newlines(&mut text): ret is the pair of the text afterwards and
\* the LineEndings returned
Normalize ==
    /\ last.op = "text"
    /\ last' = Called("normalize_newlines", <<>>, last.text, normalize_newlines(last.text))
    /\ UNCHANGED <<life, roots, files, root2files, pending_changes, cmdQ, watcherQ, taskQ,
                   disk, dirs, watched, panicked, inputs>>

SpecNormalize == InitNormalize /\ [][Normalize]_vars

----------------------------------------------------------------------------
(* Vocabulary of the properties.                                            *)

\* the controller's state after the step
VfsNext == [files |-> files', root2files |-> root2files',
            pending_changes |-> pending_changes', panicked |-> panicked']

FileIds(st) == 0..(Len(st.files) - 1)
LiveFiles(st) == UNION { st.root2files[r] : r \in DOMAIN st.root2files }
Tombstones(st) == FileIds(st) \ LiveFiles(st)

\* the step appends exactly these changes to the pending log
Appends(new) == pending_changes' = pending_changes \o new

\* the step is a call of this controller method
IsCall(op) == last'.op = op

\* the step is handle_task of this task
Handles(task) == last'.op = "handle_task" /\ last'.task = Some(task) /\ taskQ # <<>>

\* every worker command, watcher event and task has been delivered and handled
Quiescent == cmdQ = <<>> /\ watcherQ = <<>> /\ taskQ = <<>>

NoOverlay == \A f \in LiveFiles(Vfs) : ~file_data(Vfs, f).is_overlayed

\* the directories strictly above a relative path (the root itself left out)
Ancestors(rel) == { SubSeq(rel, 1, n) : n \in 1..(Len(rel) - 1) }

\* a root's filter accepts a relative file path, parent-gated as section 3 of
\* the specification has it, and no nested root owns it
Accepts(root, rel) ==
    LET data == Roots_root(root)
    IN  /\ rel # <<>>
        /\ \A e \in 1..Len(data.excluded_dirs) : ~IsPrefix(data.excluded_dirs[e], rel)
        /\ \A d \in Ancestors(rel) : include_dir(data.entry.filter, d)
        /\ include_file(data.entry.filter, rel)

\* the (root, relative path, text) triples a change of the log announces or
\* touches; a ChangeFile names its file only
ChangePaths(st, c) ==
    IF c.kind = "AddRoot"
    THEN { <<c.root, c.files[i][2]>> : i \in 1..Len(c.files) }
    ELSE IF c.kind = "ChangeFile"
    THEN { <<file_data(st, c.file).root, file_data(st, c.file).path>> }
    ELSE { <<c.root, c.path>> }

LoggedPaths == UNION { ChangePaths(Vfs, pending_changes[i]) : i \in 1..Len(pending_changes) }

----------------------------------------------------------------------------
(* C1: overlay precedence.  A handle_task step for a SingleFile whose       *)
(* (root, path) has a live overlayed file changes nothing: the file table,  *)
(* the root index and the pending log stay as they are.  And no handle_task *)
(* step for a SingleFile logs a change for a file that is overlayed.        *)

OverlayedAt(st, root, path) ==
    \E f \in st.root2files[root] :
        file_data(st, f).path = path /\ file_data(st, f).is_overlayed

C1_Step ==
    \A task \in {Head(taskQ)} :
        (Handles(task) /\ task.kind = "SingleFile") =>
            /\ OverlayedAt(Vfs, task.root, task.path) =>
                   UNCHANGED <<files, root2files, pending_changes>>
            /\ \A i \in (Len(pending_changes) + 1)..Len(pending_changes') :
                   LET c == pending_changes'[i]
                   IN  c.kind \in {"ChangeFile", "RemoveFile"} =>
                           ~file_data(Vfs, c.file).is_overlayed

C1_OverlayPrecedence == [][taskQ # <<>> => C1_Step]_vars

\* a disk update for an overlayed file has just been handled
C1_Witness ==
    /\ last.op = "handle_task"
    /\ Unwrap(last.task).kind = "SingleFile"
    /\ IsSome(Unwrap(last.task).text)
    /\ OverlayedAt(Vfs, Unwrap(last.task).root, Unwrap(last.task).path)

----------------------------------------------------------------------------
(* C2: the quiescent-state invariant.  Once every command, watcher event    *)
(* and task has been handled and no file is overlayed, for every root and   *)
(* every relative path the root's filter accepts: a live file exists iff    *)
(* the file is on disk, there is exactly one, and its text is the disk      *)
(* text with CR LF turned into LF.                                          *)

LiveAt(st, root, rel) == { f \in st.root2files[root] : file_data(st, f).path = rel }

C2_Quiescent ==
    (Quiescent /\ NoOverlay /\ ~panicked) =>
        \A root \in RootIds, path \in DiskFiles :
            LET rel == rel_path(Roots_path(root), path)
            IN  (IsSome(rel) /\ Accepts(root, Unwrap(rel))) =>
                    LET live == LiveAt(Vfs, root, Unwrap(rel))
                    IN  IF is_file(path)
                        THEN /\ Cardinality(live) = 1
                             /\ \A f \in live :
                                    file_data(Vfs, f).text
                                        = normalize_newlines(Unwrap(disk[path]))[1]
                        ELSE live = {}

----------------------------------------------------------------------------
(* C3: remove_file_overlay(p) on a live file whose disk file is readable    *)
(* restores the disk-backed view: is_overlayed becomes false, the text      *)
(* becomes the disk content with CR LF turned into LF (what read_to_string  *)
(* gives the worker), exactly one ChangeFile with that text is appended,    *)
(* the FileId is kept and returned.                                         *)

C3_Step ==
    \A path \in ApiPaths :
        LET file == path2file(Vfs, path)
            read == read_to_string(path)
        IN  (IsCall("remove_file_overlay") /\ last'.path = path
                /\ IsSome(file) /\ IsSome(read)) =>
                LET f == Unwrap(file)
                    text == Unwrap(read)[1]
                IN  /\ ~file_data(VfsNext, f).is_overlayed
                    /\ file_data(VfsNext, f).text = text
                    /\ Appends(<<ChangeFile(f, text)>>)
                    /\ f \in LiveFiles(VfsNext)
                    /\ last'.ret = Some(f)

C3_RemoveOverlayRestoresDisk == [][C3_Step]_vars

----------------------------------------------------------------------------
(* C4: remove_file_overlay(p) on a live file whose disk file is missing     *)
(* tombstones the file (out of its root's index, path and text emptied),    *)
(* appends exactly one RemoveFile{root, file, relpath}, returns the file's  *)
(* id, and path2file(p) is None afterwards.                                 *)

C4_Step ==
    \A path \in ApiPaths :
        LET found == find_root(Vfs, path)
        IN  (IsCall("remove_file_overlay") /\ last'.path = path
                /\ IsSome(path2file(Vfs, path)) /\ ~is_file(path)) =>
                LET root == Unwrap(found)[1]
                    rel == Unwrap(found)[2]
                    f == Unwrap(Unwrap(found)[3])
                IN  /\ f \notin root2files'[root]
                    /\ f \in Tombstones(VfsNext)
                    /\ file_data(VfsNext, f).path = <<>>
                    /\ file_data(VfsNext, f).text = <<>>
                    /\ Appends(<<RemoveFile(root, f, rel)>>)
                    /\ last'.ret = Some(f)
                    /\ path2file(VfsNext, path) = None
                    /\ ~panicked'

C4_RemoveOverlayTombstones == [][C4_Step]_vars

\* remove_file_overlay has just returned a file that it tombstoned
C4_Witness ==
    /\ last.op = "remove_file_overlay"
    /\ IsSome(last.ret)
    /\ ~is_file(last.path)
    /\ Unwrap(last.ret) \in Tombstones(Vfs)
    /\ pending_changes # <<>>
    /\ Last(pending_changes).kind = "RemoveFile"
    /\ Last(pending_changes).file = Unwrap(last.ret)
    /\ path2file(Vfs, last.path) = None

----------------------------------------------------------------------------
(* C5: add_file_overlay(p, t) for a p that resolves to (root, relpath).  If *)
(* a live file is there it keeps its FileId, its text becomes the           *)
(* normalized t, is_overlayed becomes true and exactly one ChangeFile is    *)
(* appended; otherwise a new FileId is allocated, overlayed, and exactly    *)
(* one AddFile{root, file, relpath, normalized t} is appended.  The FileId  *)
(* is returned in both cases.                                               *)

\* t with every CR that an LF follows left out
RECURSIVE WithoutCrLf(_)
WithoutCrLf(t) ==
    IF t = <<>> THEN <<>>
    ELSE IF Len(t) >= 2 /\ t[1] = CR /\ t[2] = LF THEN WithoutCrLf(Tail(t))
    ELSE <<t[1]>> \o WithoutCrLf(Tail(t))

C5_Step ==
    \A path \in ApiPaths, t \in OverlayTexts :
        LET found == find_root(Vfs, path)
        IN  (IsCall("add_file_overlay") /\ last'.path = path /\ last'.text = t
                /\ IsSome(found)) =>
                LET root == Unwrap(found)[1]
                    rel == Unwrap(found)[2]
                    file == Unwrap(found)[3]
                    text == WithoutCrLf(t)
                IN  IF IsSome(file)
                    THEN LET f == Unwrap(file)
                         IN  /\ Appends(<<ChangeFile(f, text)>>)
                             /\ last'.ret = Some(f)
                             /\ Len(files') = Len(files)
                             /\ root2files' = root2files
                             /\ file_data(VfsNext, f) =
                                    [file_data(Vfs, f) EXCEPT !.text = text,
                                                             !.is_overlayed = TRUE]
                    ELSE LET f == Len(files)
                         IN  /\ Appends(<<AddFile(root, f, rel, text)>>)
                             /\ last'.ret = Some(f)
                             /\ Len(files') = Len(files) + 1
                             /\ root2files' = [root2files EXCEPT ![root] = @ \cup {f}]
                             /\ file_data(VfsNext, f).root = root
                             /\ file_data(VfsNext, f).path = rel
                             /\ file_data(VfsNext, f).text = text
                             /\ file_data(VfsNext, f).is_overlayed

C5_AddFileOverlay == [][C5_Step]_vars

\* add_file_overlay has just put an overlay, its CR LF turned into LF, on a
\* file that was live already
C5_Witness ==
    /\ last.op = "add_file_overlay"
    /\ IsSome(last.ret)
    /\ last.text # WithoutCrLf(last.text)
    /\ pending_changes = <<ChangeFile(Unwrap(last.ret), WithoutCrLf(last.text))>>
    /\ file_data(Vfs, Unwrap(last.ret)).is_overlayed
    /\ file_data(Vfs, Unwrap(last.ret)).text = WithoutCrLf(last.text)


----------------------------------------------------------------------------
(* C6: handle_task(SingleFile{root, relpath, text}) for a relpath that has  *)
(* no overlayed live file follows the four-way table: (no file, None)       *)
(* changes nothing; (no file, Some t) inserts a disk-backed file with a new *)
(* FileId and appends one AddFile; (file f, None) tombstones f and appends  *)
(* one RemoveFile; (file f, Some t) replaces the text and appends exactly   *)
(* one ChangeFile if t differs from f's text, and changes nothing if not.   *)

VfsUnchanged == UNCHANGED <<files, root2files, pending_changes, panicked>>

C6_Step ==
    \A task \in {Head(taskQ)} :
        (Handles(task) /\ task.kind = "SingleFile"
            /\ ~OverlayedAt(Vfs, task.root, task.path)) =>
            LET root == task.root
                path == task.path
                existing == find_file(Vfs, root, path)
            IN  IF ~IsSome(existing) /\ ~IsSome(task.text)
                THEN VfsUnchanged
                ELSE IF ~IsSome(existing)
                THEN LET f == Len(files)
                         t == Unwrap(task.text)
                     IN  /\ Len(files') = Len(files) + 1
                         /\ SubSeq(files', 1, Len(files)) = files
                         /\ file_data(VfsNext, f) =
                                [root |-> root, path |-> path, text |-> t,
                                 line_endings |-> task.line_endings,
                                 is_overlayed |-> FALSE]
                         /\ root2files' = [root2files EXCEPT ![root] = @ \cup {f}]
                         /\ Appends(<<AddFile(root, f, path, t)>>)
                ELSE IF ~IsSome(task.text)
                THEN LET f == Unwrap(existing)
                     IN  /\ root2files' = [root2files EXCEPT ![root] = @ \ {f}]
                         /\ files' = [files EXCEPT ![f + 1].path = <<>>,
                                                   ![f + 1].text = <<>>]
                         /\ Appends(<<RemoveFile(root, f, path)>>)
                ELSE LET f == Unwrap(existing)
                         t == Unwrap(task.text)
                     IN  IF t # file_data(Vfs, f).text
                         THEN /\ files' = [files EXCEPT ![f + 1].text = t]
                              /\ root2files' = root2files
                              /\ Appends(<<ChangeFile(f, t)>>)
                         ELSE VfsUnchanged

C6_SingleFileTable == [][taskQ # <<>> => C6_Step]_vars

\* a SingleFile task with a text has just been handled for a live file that
\* is not overlayed, and has left one ChangeFile with that text
C6_Witness ==
    /\ last.op = "handle_task"
    /\ Unwrap(last.task).kind = "SingleFile"
    /\ IsSome(Unwrap(last.task).text)
    /\ \E f \in root2files[Unwrap(last.task).root] :
        /\ file_data(Vfs, f).path = Unwrap(last.task).path
        /\ ~file_data(Vfs, f).is_overlayed
        /\ pending_changes = <<ChangeFile(f, Unwrap(Unwrap(last.task).text))>>

----------------------------------------------------------------------------
(* C7: FileIds are allocated densely in increasing order and never reused.  *)
(* In every step the file table only grows at its end, the new FileIds are  *)
(* the next indices, a FileId that was tombstoned before the step is not    *)
(* live after it and is not returned by load or an overlay call, path2file  *)
(* gives live FileIds only, and a file created at a path gets a FileId      *)
(* that was not allocated before.                                           *)

C7_Step ==
    /\ Len(files') >= Len(files)
    /\ Tombstones(Vfs) \subseteq Tombstones(VfsNext)
    /\ LiveFiles(VfsNext) \ LiveFiles(Vfs) \subseteq Len(files)..(Len(files') - 1)
    /\ FileIds(VfsNext) \ FileIds(Vfs) \subseteq LiveFiles(VfsNext)
    /\ (last'.op \in {"load", "add_file_overlay", "remove_file_overlay"}
            /\ IsSome(last'.ret)) =>
            /\ Unwrap(last'.ret) \in FileIds(VfsNext)
            /\ Unwrap(last'.ret) \notin Tombstones(Vfs)
    /\ \A path \in ApiPaths :
        IsSome(path2file(VfsNext, path)) =>
            Unwrap(path2file(VfsNext, path)) \in LiveFiles(VfsNext)

C7_FileIdsNeverReused == [][C7_Step]_vars

\* a file has just been created while a smaller FileId is a tombstone
C7_Witness ==
    /\ last.op \in {"load", "add_file_overlay"}
    /\ IsSome(last.ret)
    /\ Unwrap(last.ret) = Len(files) - 1
    /\ Unwrap(last.ret) \in LiveFiles(Vfs)
    /\ pending_changes # <<>>
    /\ Last(pending_changes).kind = "AddFile"
    /\ \E t \in Tombstones(Vfs) : t < Unwrap(last.ret)

----------------------------------------------------------------------------
(* C8: in every reachable state, within a single root no two live FileIds   *)
(* have the same root-relative path, and a live file belongs to the root    *)
(* that indexes it.                                                         *)

C8_UniqueLivePaths ==
    \A root \in RootIds :
        \A f \in root2files[root] :
            /\ f \in FileIds(Vfs)
            /\ file_data(Vfs, f).root = root
            /\ \A g \in root2files[root] :
                file_data(Vfs, f).path = file_data(Vfs, g).path => f = g

\* a BulkLoadRoot task that lists a file has just been handled in a root
\* where that path was already open as an overlay
C8_Witness ==
    /\ last.op = "handle_task"
    /\ Unwrap(last.task).kind = "BulkLoadRoot"
    /\ \E i \in 1..Len(Unwrap(last.task).files) :
        \E f \in root2files[Unwrap(last.task).root] :
            /\ file_data(Vfs, f).path = Unwrap(last.task).files[i][1]
            /\ file_data(Vfs, f).is_overlayed

----------------------------------------------------------------------------
(* C9: filter parent-gating.  No change of the log names a file that has,   *)
(* at any depth above it, a directory that the filter of its root rejects.  *)

C9_ParentGating ==
    \A rp \in LoggedPaths :
        \A d \in Ancestors(rp[2]) :
            include_dir(Roots_root(rp[1]).entry.filter, d)

----------------------------------------------------------------------------
(* C10: nested-root exclusion.  A path strictly beneath the nested root is  *)
(* never resolved to the outer root: no change of the log names, under the  *)
(* outer root, a file beneath a nested root, and the outer root indexes no  *)
(* such file.                                                               *)

BeneathNestedRoot(root, rel) ==
    \E e \in 1..Len(Roots_root(root).excluded_dirs) :
        /\ IsPrefix(Roots_root(root).excluded_dirs[e], rel)
        /\ rel # Roots_root(root).excluded_dirs[e]

C10_NestedRootExclusion ==
    /\ \A rp \in LoggedPaths : ~BeneathNestedRoot(rp[1], rp[2])
    /\ \A root \in RootIds : \A f \in root2files[root] :
        ~BeneathNestedRoot(root, file_data(Vfs, f).path)


----------------------------------------------------------------------------
(* C11: roots are deduplicated by path.  For every list of root entries,    *)
(* in whatever order the duplicates occur, Vfs::new leaves exactly one      *)
(* root per distinct path: n_roots and the number of handles returned       *)
(* equal the number of distinct paths.                                      *)

DistinctPaths(entries) == { entries[i].path : i \in 1..Len(entries) }

C11_RootsDeduplicated ==
    last.op = "new" =>
        /\ Roots_len = Cardinality(DistinctPaths(last.path))
        /\ Len(last.ret) = Cardinality(DistinctPaths(last.path))
        /\ \A p \in DistinctPaths(last.path) :
            Cardinality({ r \in RootIds : Roots_path(r) = p }) = 1


----------------------------------------------------------------------------
(* C12: load(p) is idempotent.  For a p that resolves, a call returns a     *)
(* FileId which is the file the next call finds at p; a call that finds a   *)
(* file at p returns its FileId, appends nothing to the log and changes no  *)
(* state.                                                                   *)

C12_Step ==
    \A path \in ApiPaths :
        (IsCall("load") /\ last'.path = path /\ IsSome(find_root(Vfs, path))) =>
            /\ IsSome(last'.ret)
            /\ path2file(VfsNext, path) = last'.ret
            /\ IsSome(path2file(Vfs, path)) =>
                (last'.ret = path2file(Vfs, path) /\ VfsUnchanged)

C12_LoadIdempotent == [][C12_Step]_vars

\* load has just returned a file and the log is empty: the file was there
C12_Witness ==
    /\ last.op = "load"
    /\ IsSome(last.ret)
    /\ Unwrap(last.ret) \in LiveFiles(Vfs)
    /\ pending_changes = <<>>


----------------------------------------------------------------------------
(* C13: for every resolvable path p and text t, whether or not p already    *)
(* has a live file, add_file_overlay(p, t) followed by                      *)
(* change_file_overlay(p, t) produces exactly one ChangeFile.               *)

\* the step is change_file_overlay(p, t) right after add_file_overlay(p, t)
\* returned a file
AddThenChange(path, t) ==
    /\ last.op = "add_file_overlay" /\ last.path = path /\ last.text = t
    /\ IsSome(last.ret)
    /\ pending_changes # <<>>
    /\ IsCall("change_file_overlay") /\ last'.path = path /\ last'.text = t

\* the number of ChangeFile among the changes cs
ChangeFileCount(cs) == Cardinality({ i \in 1..Len(cs) : cs[i].kind = "ChangeFile" })

\* the changes of the two calls: the one add_file_overlay appended, and what
\* the step appends
ProducedByBoth ==
    <<Last(pending_changes)>>
        \o SubSeq(pending_changes', Len(pending_changes) + 1, Len(pending_changes'))

C13_Step ==
    \A path \in ApiPaths, t \in OverlayTexts :
        AddThenChange(path, t) => ChangeFileCount(ProducedByBoth) = 1

C13_ExactlyOneChangeFile == [][C13_Step]_vars

(* C13 as amended: change_file_overlay(p, t) right after                    *)
(* add_file_overlay(p, t) appends exactly one ChangeFile, for the FileId    *)
(* that add_file_overlay returned and with the normalized t; with the one   *)
(* change add_file_overlay appended the two calls produce one AddFile and   *)
(* one ChangeFile when add_file_overlay created the file, and two           *)
(* ChangeFile when the file was live already.                               *)

C13_AmendedStep ==
    \A path \in ApiPaths, t \in OverlayTexts :
        AddThenChange(path, t) =>
            LET f == Unwrap(last.ret)
                added == Last(pending_changes)
            IN  /\ Appends(<<ChangeFile(f, WithoutCrLf(t))>>)
                /\ added.file = f
                /\ added.kind \in {"AddFile", "ChangeFile"}
                /\ ChangeFileCount(ProducedByBoth) =
                        IF added.kind = "AddFile" THEN 1 ELSE 2
                /\ file_data(VfsNext, f).is_overlayed
                /\ ~panicked'

C13_AddThenChange == [][C13_AmendedStep]_vars

\* the second host call has just been change_file_overlay(p, t), the first
\* was add_file_overlay(p, t) which created the file: the log holds its
\* AddFile and one ChangeFile
C13_Witness ==
    /\ last.op = "change_file_overlay"
    /\ inputs = 2
    /\ Len(pending_changes) = 2
    /\ pending_changes[1].kind = "AddFile"
    /\ pending_changes[1].text = WithoutCrLf(last.text)
    /\ pending_changes[2] = ChangeFile(pending_changes[1].file, WithoutCrLf(last.text))
    /\ file_data(Vfs, pending_changes[1].file).is_overlayed


----------------------------------------------------------------------------
(* C14: for every input string over CR, LF and other characters,            *)
(* normalize_newlines leaves a string that never contains the pair CR LF    *)
(* and that equals the input with exactly those CRs removed that were       *)
(* immediately followed by LF.                                              *)

HasCrLf(t) == \E i \in 1..(Len(t) - 1) : t[i] = CR /\ t[i + 1] = LF
HasCrCrLf(t) ==
    \E i \in 1..(Len(t) - 2) : t[i] = CR /\ t[i + 1] = CR /\ t[i + 2] = LF

Normalized == last.op = "normalize_newlines"

C14_NoCrLfLeft ==
    Normalized =>
        /\ ~HasCrLf(last.ret[1])
        /\ last.ret[1] = WithoutCrLf(last.text)

(* C14 as amended: normalize_newlines leaves the input with exactly those   *)
(* CRs removed that were immediately followed by LF (one pass, every other  *)
(* byte kept in order); the result contains a pair CR LF exactly when the   *)
(* input contained CR CR LF.                                                *)

C14_RemovesCrBeforeLf ==
    Normalized =>
        /\ last.ret[1] = WithoutCrLf(last.text)
        /\ HasCrLf(last.ret[1]) <=> HasCrCrLf(last.text)

\* normalize_newlines has just removed the CR of a pair and kept an isolated one
C14_Witness ==
    /\ Normalized
    /\ HasCrLf(last.text)
    /\ Len(last.ret[1]) < Len(last.text)
    /\ \E i \in 1..Len(last.ret[1]) : last.ret[1][i] = CR
    /\ ~HasCrLf(last.ret[1])

----------------------------------------------------------------------------
(* C15: normalize_newlines applied to a text whose only CRs are isolated    *)
(* (not followed by LF) returns the text unchanged with flavor LF; flavor   *)
(* CRLF is reported only when a pair CR LF was present.                     *)

C15_IsolatedCrIsUnix ==
    Normalized =>
        /\ ~HasCrLf(last.text) => last.ret = <<last.text, Unix>>
        /\ last.ret[2] = Dos => HasCrLf(last.text)


----------------------------------------------------------------------------
(* C16: merge on bulk load.  handle_task(BulkLoadRoot) appends exactly one  *)
(* AddRoot to the log, with one entry per incoming relative path in the     *)
(* incoming order.  A path that already has a live file keeps its FileId,   *)
(* text and is_overlayed and is listed with its current text; every other   *)
(* path gets a new disk-backed FileId with the scanned text.  Live files    *)
(* absent from the task are neither listed nor modified.                    *)

\* the number of the first n incoming paths that have no live file
RECURSIVE NewBefore(_, _, _)
NewBefore(root, fs, n) ==
    IF n = 0 THEN 0
    ELSE NewBefore(root, fs, n - 1)
         + (IF LiveAt(Vfs, root, fs[n][1]) = {} THEN 1 ELSE 0)

HandlesBulkLoadRoot ==
    /\ last'.op = "handle_task"
    /\ taskQ # <<>>
    /\ last'.task = Some(Head(taskQ))
    /\ Head(taskQ).kind = "BulkLoadRoot"

C16_Step ==
    HandlesBulkLoadRoot =>
        LET root == Head(taskQ).root
            fs == Head(taskQ).files
            change == Last(pending_changes')
        IN  /\ Appends(<<change>>)
            /\ change.kind = "AddRoot"
            /\ change.root = root
            /\ Len(change.files) = Len(fs)
            /\ \A i \in 1..Len(fs) :
                LET entry == change.files[i]
                    live == LiveAt(Vfs, root, fs[i][1])
                IN  /\ entry[2] = fs[i][1]
                    /\ IF live # {}
                       THEN /\ entry[1] \in live
                            /\ entry[3] = file_data(Vfs, entry[1]).text
                       ELSE /\ entry[1] = Len(files) + NewBefore(root, fs, i - 1)
                            /\ entry[3] = fs[i][2]
                            /\ file_data(VfsNext, entry[1]) =
                                [root |-> root, path |-> fs[i][1], text |-> fs[i][2],
                                 line_endings |-> fs[i][3], is_overlayed |-> FALSE]
                            /\ entry[1] \in root2files'[root]
            /\ Len(files') = Len(files) + NewBefore(root, fs, Len(fs))
            /\ \A f \in FileIds(Vfs) : file_data(VfsNext, f) = file_data(Vfs, f)
            /\ \A r \in RootIds : root2files[r] \subseteq root2files'[r]
            /\ \A r \in RootIds \ {root} : root2files'[r] = root2files[r]
            /\ ~panicked'

C16_MergeOnBulkLoad == [][C16_Step]_vars

\* a BulkLoadRoot has just been handled whose listing holds a file that was
\* live before, with a text other than the scanned one, and a new file
C16_Witness ==
    /\ last.op = "handle_task"
    /\ Unwrap(last.task).kind = "BulkLoadRoot"
    /\ pending_changes # <<>>
    /\ Last(pending_changes).kind = "AddRoot"
    /\ Len(Last(pending_changes).files) = Len(Unwrap(last.task).files)
    /\ \E i, j \in 1..Len(Unwrap(last.task).files) :
        /\ Last(pending_changes).files[i][3] # Unwrap(last.task).files[i][2]
        /\ Last(pending_changes).files[j][1] > Last(pending_changes).files[i][1]
        /\ Last(pending_changes).files[j][3] = Unwrap(last.task).files[j][2]


----------------------------------------------------------------------------
(* C17: AddRoot is emitted once per root.  Vfs::new enqueues exactly one    *)
(* AddRoot command per registered root; the worker eventually answers each  *)
(* command with exactly one BulkLoadRoot for that root, under fair          *)
(* scheduling of the worker and even while watcher events keep arriving;    *)
(* handle_task turns each BulkLoadRoot into exactly one AddRoot change, so  *)
(* once all tasks are handled the log has carried one AddRoot per root.     *)

\* the AddRoot commands for a root in a command queue
CommandsIn(q, root) == Cardinality({ i \in 1..Len(q) : q[i] = root })

\* the BulkLoadRoot tasks for a root in a task queue
BulkLoadsIn(q, root) ==
    Cardinality({ i \in 1..Len(q) : q[i].kind = "BulkLoadRoot" /\ q[i].root = root })

\* the AddRoot changes for a root in a list of changes
AddRootsIn(q, root) ==
    Cardinality({ i \in 1..Len(q) : q[i].kind = "AddRoot" /\ q[i].root = root })

\* the changes a step appends to the log
Added ==
    IF IsPrefix(pending_changes, pending_changes')
    THEN SubSeq(pending_changes', Len(pending_changes) + 1, Len(pending_changes'))
    ELSE <<>>

OneCommandPerRoot == \A root \in RootIds : CommandsIn(cmdQ, root) = 1

\* a command is answered by one BulkLoadRoot, a BulkLoadRoot is handled into
\* one AddRoot, and nothing else makes a command, a BulkLoadRoot or an AddRoot
C17_Step ==
    \A root \in RootIds :
        /\ CommandsIn(cmdQ', root) <= CommandsIn(cmdQ, root)
        /\ BulkLoadsIn(taskQ', root) =
                BulkLoadsIn(taskQ, root)
                + (CommandsIn(cmdQ, root) - CommandsIn(cmdQ', root))
                - AddRootsIn(Added, root)
        /\ AddRootsIn(Added, root) <= BulkLoadsIn(taskQ, root)
        /\ AddRootsIn(pending_changes', root) <= AddRootsIn(pending_changes, root) + AddRootsIn(Added, root)

AllRootsLoaded ==
    \A root \in RootIds : CommandsIn(cmdQ, root) = 0 /\ BulkLoadsIn(taskQ, root) = 0

----------------------------------------------------------------------------
(* C18: commit_changes returns all changes appended since the previous      *)
(* commit, in the order they were emitted, and leaves the log empty.  Until *)
(* a commit the log only grows at its end, so every emitted change is       *)
(* returned by exactly one commit_changes call, the next one; a commit with *)
(* nothing emitted since the last one returns the empty list.               *)

C18_Step ==
    IF IsCall("commit_changes")
    THEN /\ last'.ret = pending_changes
         /\ pending_changes' = <<>>
         /\ UNCHANGED <<files, root2files, panicked>>
    ELSE IsPrefix(pending_changes, pending_changes')

C18_CommitDrainsLog == [][C18_Step]_vars

\* commit_changes has just returned two changes of different kinds
C18_Witness ==
    /\ last.op = "commit_changes"
    /\ Len(last.ret) = 2
    /\ last.ret[1].kind # last.ret[2].kind
    /\ pending_changes = <<>>


----------------------------------------------------------------------------
(* C19: change_file_overlay(p, t) and remove_file_overlay(p) on a path p    *)
(* that has no live file (never added, tombstoned, or rejected by the roots *)
(* and filters) fail loudly as a programmer error; they never return        *)
(* normally as a silent no-op, and they append nothing to the change log.   *)

OnUnknownPath(path) ==
    /\ IsCall("change_file_overlay") \/ IsCall("remove_file_overlay")
    /\ last'.path = path
    /\ ~IsSome(path2file(Vfs, path))

C19_Step ==
    \A path \in ApiPaths :
        OnUnknownPath(path) => (panicked' /\ Appends(<<>>))

C19_UnknownPathFailsLoudly == [][C19_Step]_vars

(* C19 as amended: on a path p that a root accepts and that has no live     *)
(* file there (never added, or tombstoned), change_file_overlay(p, t) and   *)
(* remove_file_overlay(p) fail loudly as a programmer error.  On a path p   *)
(* that no root accepts they return normally without effect, and            *)
(* remove_file_overlay returns None.  In both cases they append nothing to  *)
(* the change log and change no file.                                       *)

C19_AmendedStep ==
    \A path \in ApiPaths :
        OnUnknownPath(path) =>
            /\ Appends(<<>>)
            /\ UNCHANGED <<files, root2files>>
            /\ IF IsSome(Roots_find(path, File))
               THEN panicked'
               ELSE /\ ~panicked'
                    /\ IsCall("remove_file_overlay") => last'.ret = None

C19_UnknownPath == [][C19_AmendedStep]_vars

\* change_file_overlay has just failed on a path whose file was removed (the
\* log still holds its RemoveFile) and is a tombstone
C19_Witness ==
    /\ last.op = "change_file_overlay"
    /\ panicked
    /\ IsSome(Roots_find(last.path, File))
    /\ pending_changes # <<>>
    /\ Last(pending_changes).kind = "RemoveFile"
    /\ Last(pending_changes).root = Unwrap(Roots_find(last.path, File))[1]
    /\ Last(pending_changes).path = Unwrap(Roots_find(last.path, File))[2]
    /\ Last(pending_changes).file \in Tombstones(Vfs)


----------------------------------------------------------------------------
(* C20: monotonic freshness of the worker's output.  Every message the      *)
(* worker sends reports, for each file it names, the content the disk has   *)
(* at that moment (normalized, or none for a SingleFile of a missing file), *)
(* and the messages leave in the order they were sent.  So the texts        *)
(* reported for a file, the BulkLoadRoot entry and the SingleFile messages  *)
(* after it, are disk states of the file in chronological order: the worker *)
(* never reports an older state after a newer one, however disk writes,     *)
(* watcher events and AddRoot commands interleave.                          *)

\* what the disk holds for a root-relative path, as read_to_string gives it
OnDisk(root, rel) ==
    LET abs_path == Roots_path(root) \o rel
    IN  IF abs_path \in DOMAIN disk /\ IsSome(disk[abs_path])
        THEN Some(WithoutCrLf(Unwrap(disk[abs_path])))
        ELSE None

Fresh(task) ==
    IF task.kind = "SingleFile"
    THEN task.text = OnDisk(task.root, task.path)
    ELSE \A i \in 1..Len(task.files) :
            Some(task.files[i][2]) = OnDisk(task.root, task.files[i][1])

C20_Step ==
    \/ taskQ' = taskQ
    \/ taskQ # <<>> /\ taskQ' = Tail(taskQ)
    \/ /\ IsPrefix(taskQ, taskQ')
       /\ UNCHANGED disk
       /\ \A i \in (Len(taskQ) + 1)..Len(taskQ') : Fresh(taskQ'[i])

C20_MonotonicFreshness == [][C20_Step]_vars

\* the worker has answered the event of a write after the file was removed
\* again: it reports the file as missing, and the event of the removal is
\* still waiting
C20_Witness ==
    /\ taskQ # <<>>
    /\ Head(taskQ).kind = "SingleFile"
    /\ Head(taskQ).text = None
    /\ watcherQ # <<>>
    /\ Head(watcherQ)[2] = Remove
    /\ Head(watcherQ)[1] = Roots_path(Head(taskQ).root) \o Head(taskQ).path


----------------------------------------------------------------------------
(* C21: downstream state never regresses.  Once the controller holds disk   *)
(* state v as the text of a non-overlayed file it never later replaces it   *)
(* with, or logs a ChangeFile carrying, a disk state older than v.  Stated  *)
(* for the newest state: when the controller has just read the disk itself  *)
(* for a non-overlayed file (in load or remove_file_overlay) and holds what *)
(* the disk holds now, the next step, if it is not a disk write, leaves the *)
(* file live with that text (or makes it an overlay) and logs no ChangeFile *)
(* for it with another text, since every other disk state is older.        *)

\* a text is the content the disk holds now for a file, normalized or as read
IsCurrent(text, root, rel) ==
    LET abs_path == Roots_path(root) \o rel
    IN  /\ abs_path \in DOMAIN disk
        /\ IsSome(disk[abs_path])
        /\ text \in {Unwrap(disk[abs_path]), WithoutCrLf(Unwrap(disk[abs_path]))}

HoldsCurrent(f) ==
    /\ f \in LiveFiles(Vfs)
    /\ ~file_data(Vfs, f).is_overlayed
    /\ IsCurrent(file_data(Vfs, f).text, file_data(Vfs, f).root, file_data(Vfs, f).path)

\* the controller has just read the disk itself for f: load added f with the
\* text it read, or remove_file_overlay restored f from the disk
JustRead(f) ==
    \/ last.op = "remove_file_overlay" /\ last.ret = Some(f)
    \/ /\ last.op = "load"
       /\ last.ret = Some(f)
       /\ last.text = file_data(Vfs, f).text
       /\ f = Len(files) - 1

C21_Step ==
    \A f \in FileIds(Vfs) :
        (JustRead(f) /\ HoldsCurrent(f) /\ disk' = disk /\ ~panicked') =>
            /\ f \in LiveFiles(VfsNext)
            /\ file_data(VfsNext, f).is_overlayed
                \/ IsCurrent(file_data(VfsNext, f).text,
                             file_data(Vfs, f).root, file_data(Vfs, f).path)
            /\ \A i \in 1..Len(Added) :
                (Added[i].kind = "ChangeFile" /\ Added[i].file = f
                    /\ ~file_data(VfsNext, f).is_overlayed)
                    => IsCurrent(Added[i].text, file_data(Vfs, f).root, file_data(Vfs, f).path)

C21_NeverRegresses == [][C21_Step]_vars


----------------------------------------------------------------------------
(* C23.  The change log carries only successful observations: every text    *)
(* in an AddFile, a ChangeFile or an AddRoot entry is a normalized overlay   *)
(* text or the normalized content of a successful disk read; a read that    *)
(* fails (in the worker, in load or in remove_file_overlay) never produces  *)
(* a log entry that carries a text.                                         *)

\* the texts an overlay call or a successful disk read can yield, normalized
ObservedTexts == { WithoutCrLf(t) : t \in OverlayTexts \union DiskTexts }

\* the texts a log entry carries
TextsOf(change) ==
    IF change.kind \in {"AddFile", "ChangeFile"} THEN {change.text}
    ELSE IF change.kind = "AddRoot"
    THEN { change.files[i][3] : i \in 1..Len(change.files) }
    ELSE {}

C23_Step == \A i \in 1..Len(Added) : TextsOf(Added[i]) \subseteq ObservedTexts

C23_OnlySuccessfulObservations == [][C23_Step]_vars


----------------------------------------------------------------------------
(* C24.  file_line_endings(f) of a live disk-backed file is the flavor of   *)
(* the disk content most recently applied to it: a SingleFile task that     *)
(* carries a text leaves the file with the line endings the task carries,   *)
(* and a remove_file_overlay that finds the file on disk leaves it with the *)
(* line endings of the content it read.                                     *)

file_line_endings(st, file) == file_data(st, file).line_endings

\* the step applies the text of a SingleFile task to the disk-backed file f
AppliesSingleFile(f) ==
    /\ last'.op = "handle_task"
    /\ IsSome(last'.task)
    /\ Unwrap(last'.task).kind = "SingleFile"
    /\ IsSome(Unwrap(last'.task).text)
    /\ ~file_data(VfsNext, f).is_overlayed
    /\ file_data(VfsNext, f).root = Unwrap(last'.task).root
    /\ file_data(VfsNext, f).path = Unwrap(last'.task).path
    /\ file_data(VfsNext, f).text = Unwrap(Unwrap(last'.task).text)

\* the step is a remove_file_overlay that restores f from the disk
RestoresFromDisk(f) ==
    /\ last'.op = "remove_file_overlay"
    /\ last'.ret = Some(f)
    /\ last'.path \in DOMAIN disk
    /\ IsSome(disk[last'.path])

C24_Step ==
    \A f \in LiveFiles(VfsNext) :
        /\ AppliesSingleFile(f) =>
              file_line_endings(VfsNext, f) = Unwrap(last'.task).line_endings
        /\ RestoresFromDisk(f) =>
              file_line_endings(VfsNext, f) = normalize_newlines(Unwrap(disk[last'.path]))[2]

C24_LineEndingsFollowContent == [][C24_Step]_vars


----------------------------------------------------------------------------
(* C25.  add_file_overlay(p, t) on a path that no root accepts (outside     *)
(* every root, rejected by include_file, or inside a directory rejected by  *)
(* include_dir) returns None, creates no file and appends nothing to the    *)
(* change log; path2file(p) stays None.                                     *)

\* the path lies under no root, or every root it lies under rejects it
NoRootAccepts(path) ==
    \A root \in RootIds :
        IsPrefix(Roots_path(root), path) =>
            ~Accepts(root, SubSeq(path, Len(Roots_path(root)) + 1, Len(path)))

C25_Step ==
    (IsCall("add_file_overlay") /\ NoRootAccepts(last'.path)) =>
        /\ last'.ret = None
        /\ files' = files
        /\ root2files' = root2files
        /\ pending_changes' = pending_changes
        /\ path2file(VfsNext, last'.path) = None

C25_RejectedOverlayIsNoOp == [][C25_Step]_vars


----------------------------------------------------------------------------
(* C27.  For a Write or Remove event on a path that resolves as a file to   *)
(* (root, relpath) the worker emits exactly one SingleFile for (root,       *)
(* relpath), with the normalized current content as text if the file can    *)
(* be read and None otherwise, whatever the event kind and also when the    *)
(* file no longer exists when the event is processed.                       *)

\* the worker takes the event at the head of the watcher queue
HandlesChange == watcherQ # <<>> /\ watcherQ' = Tail(watcherQ) /\ disk' = disk

C27_Step ==
    \A ev \in {Head(watcherQ)} :
        \A found \in {Roots_find(ev[1], File)} :
            (HandlesChange /\ ev[2] \in {Write, Remove} /\ IsSome(found)) =>
                \E task \in {Last(taskQ')} :
                    /\ Len(taskQ') = Len(taskQ) + 1
                    /\ IsPrefix(taskQ, taskQ')
                    /\ task.kind = "SingleFile"
                    /\ task.root = Unwrap(found)[1]
                    /\ task.path = Unwrap(found)[2]
                    /\ task.text = OnDisk(task.root, task.path)

C27_OneSingleFilePerEvent == [][watcherQ # <<>> => C27_Step]_vars


----------------------------------------------------------------------------
(* C28.  A Create event on a directory makes the worker emit one SingleFile *)
(* per accepted file beneath the directory (none for a file in a directory  *)
(* the filter rejects or in a nested root), each with its root-relative     *)
(* path and its normalized content, and never a BulkLoadRoot.  A Create     *)
(* event on a file that resolves emits exactly one SingleFile.  So the      *)
(* creation of a file in new subdirectories reaches the controller as one   *)
(* SingleFile whose path is the whole path from the root.                   *)

\* the tasks a step appends to the task queue
Emitted ==
    IF IsPrefix(taskQ, taskQ') THEN SubSeq(taskQ', Len(taskQ) + 1, Len(taskQ')) ELSE <<>>

\* the (root, relative path) pairs of the files on disk beneath dir that a
\* root accepts
AcceptedBeneath(dir) ==
    { p \in { <<root, SubSeq(f, Len(Roots_path(root)) + 1, Len(f))>> :
                root \in { r \in RootIds : IsPrefix(Roots_path(r), dir) },
                f \in { g \in DiskFiles : is_file(g) /\ IsPrefix(dir, g) } } :
        Accepts(p[1], p[2]) }

C28_Step ==
    \A ev \in {Head(watcherQ)} :
        (HandlesChange /\ ev[2] = Create) =>
            /\ IsPrefix(taskQ, taskQ')
            /\ \A i \in 1..Len(Emitted) : Emitted[i].kind = "SingleFile"
            /\ ev[1] \in dirs =>
                  /\ { <<Emitted[i].root, Emitted[i].path>> : i \in 1..Len(Emitted) }
                        = AcceptedBeneath(ev[1])
                  /\ Len(Emitted) = Cardinality(AcceptedBeneath(ev[1]))
                  /\ \A i \in 1..Len(Emitted) :
                        Emitted[i].text = OnDisk(Emitted[i].root, Emitted[i].path)
            /\ (is_file(ev[1]) /\ IsSome(Roots_find(ev[1], File))) =>
                  /\ Len(Emitted) = 1
                  /\ <<Emitted[1].root, Emitted[1].path>> = Unwrap(Roots_find(ev[1], File))
                  /\ Emitted[1].text = OnDisk(Emitted[1].root, Emitted[1].path)

----------------------------------------------------------------------------
(* The threads and channels of io::start (io.rs:69-140).                    *)
(* life.sender: the Vfs still holds Worker.sender.  life.worker: "start"    *)
(* before the thread has made its watcher, "loop" in the select loop,       *)
(* "drain" after the break, "done" at the end of the closure, "dead" after  *)
(* panic!("watcher is dead").  life.watcher: the Option the worker holds,   *)
(* "some" or "none", "unborn" before and "dropped" after; the watcher owns  *)
(* notify_sender.  life.bridge: the notify-convertor thread, which owns     *)
(* watcher_sender: "unborn", "run", "done", or "dead" when send().unwrap()  *)
(* has failed.  life.notifyQ: the channel from the watcher to the bridge.   *)
(* life.at_drop is history: the state of the bridge thread when the Vfs was *)
(* dropped.  life.renamed is history: the last rename on disk.              *)
(* The worker holds watcher_receiver until its closure ends or unwinds.     *)

MaxNotify == 1

\* notify::DebouncedEvent
RawKinds ==
    {"NoticeWrite", "NoticeRemove", "Create", "Write", "Chmod", "Remove", "Rename",
     "Rescan", "Error"}

DebouncedEvent(kind, path, dst) == [kind |-> kind, path |-> path, dst |-> dst]

\* the events the platform may report in the model
RawEvents ==
    { DebouncedEvent(kind, FileAuthor, IF kind = "Rename" THEN FileHidden ELSE <<>>) :
        kind \in RawKinds }

\* convert_notify_event: the (path, ChangeKind) pairs sent, in order
convert_notify_event(event) ==
    CASE event.kind \in {"NoticeWrite", "NoticeRemove", "Chmod"} -> <<>>
      [] event.kind = "Rescan" -> <<>>
      [] event.kind = "Create" -> << <<event.path, Create>> >>
      [] event.kind = "Write" -> << <<event.path, Write>> >>
      [] event.kind = "Remove" -> << <<event.path, Remove>> >>
      [] event.kind = "Rename" -> << <<event.path, Remove>>, <<event.dst, Create>> >>
      [] event.kind = "Error" -> <<>>

\* Vfs::new has returned, the worker thread has not run yet
Spawned ==
    [sender |-> TRUE, worker |-> "start", watcher |-> "unborn", bridge |-> "unborn",
     notifyQ |-> <<>>, at_drop |-> "", renamed |-> <<>>]

watcher_receiver_alive == life.worker \in {"start", "loop", "drain"}

\* the worker thread makes the channels, the watcher (made is FALSE when
\* notify::watcher fails), spawns the bridge thread and enters the loop
WorkerStart(made) ==
    /\ life.worker = "start"
    /\ life' = [life EXCEPT !.worker = "loop",
                            !.watcher = IF made THEN "some" ELSE "none",
                            !.bridge = "run"]
    /\ UNCHANGED <<roots, files, root2files, pending_changes, cmdQ, watcherQ, taskQ,
                   disk, dirs, watched, panicked, inputs, last>>

\* the Vfs is dropped: Worker.sender is dropped first
Drop ==
    /\ life.sender
    /\ life' = [life EXCEPT !.sender = FALSE, !.at_drop = life.bridge]
    /\ UNCHANGED <<roots, files, root2files, pending_changes, cmdQ, watcherQ, taskQ,
                   disk, dirs, watched, panicked, inputs, last>>

\* recv(input_receiver) gives Err: the channel is empty and its sender is
\* gone; the worker breaks, and the end of the block drops the watcher
WorkerExit ==
    /\ life.worker = "loop"
    /\ ~life.sender
    /\ cmdQ = <<>>
    /\ life' = [life EXCEPT !.worker = "drain",
                            !.watcher = IF @ = "some" THEN "dropped" ELSE @]
    /\ UNCHANGED <<roots, files, root2files, pending_changes, cmdQ, watcherQ, taskQ,
                   disk, dirs, watched, panicked, inputs, last>>

\* recv(watcher_receiver) gives Err: the channel is empty and the bridge,
\* which owns its sender, has ended
WorkerPanic ==
    /\ life.worker = "loop"
    /\ watcherQ = <<>>
    /\ life.bridge \in {"done", "dead"}
    /\ life' = [life EXCEPT !.worker = "dead",
                            !.watcher = IF @ = "some" THEN "dropped" ELSE @]
    /\ UNCHANGED <<roots, files, root2files, pending_changes, cmdQ, watcherQ, taskQ,
                   disk, dirs, watched, panicked, inputs, last>>

\* watcher_receiver.into_iter().for_each(|_| ()): an event is thrown away ...
WorkerDrain ==
    /\ life.worker = "drain"
    /\ watcherQ # <<>>
    /\ watcherQ' = Tail(watcherQ)
    /\ UNCHANGED <<roots, files, root2files, pending_changes, cmdQ, taskQ,
                   disk, dirs, watched, panicked, inputs, last, life>>

\* a variant that stops draining as soon as the channel is empty
WorkerDone_when_empty ==
    /\ life.worker = "drain"
    /\ watcherQ = <<>>
    /\ life' = [life EXCEPT !.worker = "done"]
    /\ UNCHANGED <<roots, files, root2files, pending_changes, cmdQ, watcherQ, taskQ,
                   disk, dirs, watched, panicked, inputs, last>>

\* ... and the iteration ends when the channel is empty and the bridge has ended
WorkerDone ==
    /\ life.worker = "drain"
    /\ watcherQ = <<>>
    /\ life.bridge \in {"done", "dead"}
    /\ life' = [life EXCEPT !.worker = "done"]
    /\ UNCHANGED <<roots, files, root2files, pending_changes, cmdQ, watcherQ, taskQ,
                   disk, dirs, watched, panicked, inputs, last>>

\* the platform watcher reports an event
WatcherEmit(event) ==
    /\ life.watcher = "some"
    /\ Len(life.notifyQ) < MaxNotify
    /\ life' = [life EXCEPT !.notifyQ = Append(@, event)]
    /\ UNCHANGED <<roots, files, root2files, pending_changes, cmdQ, watcherQ, taskQ,
                   disk, dirs, watched, panicked, inputs, last>>

\* the bridge thread takes an event and sends what convert_notify_event makes
\* of it; the send fails, and unwrap panics, when watcher_receiver is gone
BridgeForward ==
    /\ life.bridge = "run"
    /\ life.notifyQ # <<>>
    /\ \E sent \in {convert_notify_event(Head(life.notifyQ))} :
        IF sent # <<>> /\ ~watcher_receiver_alive
        THEN /\ life' = [life EXCEPT !.bridge = "dead", !.notifyQ = Tail(@)]
             /\ UNCHANGED watcherQ
        ELSE /\ Len(watcherQ) + Len(sent) <= MaxEvents
             /\ watcherQ' = watcherQ \o sent
             /\ life' = [life EXCEPT !.notifyQ = Tail(@)]
    /\ UNCHANGED <<roots, files, root2files, pending_changes, cmdQ, taskQ,
                   disk, dirs, watched, panicked, inputs, last>>

\* a variant whose iteration ends as soon as the channel is empty
BridgeEnd_when_empty ==
    /\ life.bridge = "run"
    /\ life.notifyQ = <<>>
    /\ life' = [life EXCEPT !.bridge = "done"]
    /\ UNCHANGED <<roots, files, root2files, pending_changes, cmdQ, watcherQ, taskQ,
                   disk, dirs, watched, panicked, inputs, last>>

\* notify_receiver.into_iter() ends: the channel is empty and the watcher,
\* which owns notify_sender, is gone
BridgeEnd ==
    /\ life.bridge = "run"
    /\ life.notifyQ = <<>>
    /\ life.watcher \in {"none", "dropped"}
    /\ life' = [life EXCEPT !.bridge = "done"]
    /\ UNCHANGED <<roots, files, root2files, pending_changes, cmdQ, watcherQ, taskQ,
                   disk, dirs, watched, panicked, inputs, last>>

\* the host gives a task to handle_task while it has the Vfs ...
HostHandlesTask == life.sender /\ HandleTask

\* ... and afterwards on_task still takes the tasks of the worker
TaskDiscarded ==
    /\ ~life.sender
    /\ taskQ # <<>>
    /\ taskQ' = Tail(taskQ)
    /\ UNCHANGED <<roots, files, root2files, pending_changes, cmdQ, watcherQ,
                   disk, dirs, watched, panicked, inputs, last, life>>

InitLife ==
    /\ roots = Roots_new(RootEntries(NoopFilter, NoopFilter))
    /\ files = <<>>
    /\ root2files = [r \in RootIds |-> {}]
    /\ pending_changes = <<>>
    /\ cmdQ = [i \in 1..Roots_len |-> i - 1]
    /\ watcherQ = <<>>
    /\ taskQ = <<>>
    /\ disk = [f \in DiskFiles |-> None]
    /\ dirs = {PathA, PathAB}
    /\ watched = {}
    /\ panicked = FALSE
    /\ inputs = 0
    /\ life = Spawned
    /\ last = NoOp

NextLife ==
    \/ \E made \in BOOLEAN : WorkerStart(made)
    \/ Drop
    \/ WorkerAddRoot
    \/ WorkerHandleChange
    \/ WorkerExit
    \/ WorkerPanic
    \/ WorkerDrain
    \/ WorkerDone
    \/ \E event \in RawEvents : WatcherEmit(event)
    \/ BridgeForward
    \/ BridgeEnd
    \/ HostHandlesTask
    \/ TaskDiscarded

\* every thread that can take a step takes one in the end; select! takes a
\* ready operation at random (io.rs:111-134), so an arm that is ready again
\* and again is taken in the end
LifeSpec ==
    /\ InitLife
    /\ [][NextLife]_vars
    /\ WF_vars(\E made \in BOOLEAN : WorkerStart(made))
    /\ SF_vars(WorkerAddRoot)
    /\ WF_vars(WorkerExit)
    /\ WF_vars(WorkerPanic)
    /\ WF_vars(WorkerDrain)
    /\ WF_vars(WorkerDone)
    /\ WF_vars(BridgeForward)
    /\ WF_vars(BridgeEnd)
    /\ WF_vars(HostHandlesTask)
    /\ WF_vars(TaskDiscarded)


----------------------------------------------------------------------------
(* C22.  Shutdown terminates cleanly.  When the Vfs has been dropped and    *)
(* the worker has a watcher, then, whatever events wait in the channels or  *)
(* are still being reported, the worker leaves its select loop, the         *)
(* watcher is released, the bridge thread ends and the worker finishes      *)
(* draining: both threads terminate in the end.  And the bridge thread      *)
(* never sends on a channel whose receiver has been dropped.                *)

Terminated ==
    /\ life.worker = "done"
    /\ life.bridge = "done"
    /\ life.watcher = "dropped"
    /\ life.notifyQ = <<>>
    /\ watcherQ = <<>>

ShutdownRequested == ~life.sender /\ life.watcher = "some"

----------------------------------------------------------------------------
(* C30.  If the channel from the watcher to the worker is closed while the  *)
(* command channel is still open, the worker fails fast: it panics with     *)
(* 'watcher is dead' and never keeps running silently.  This failure is     *)
(* reachable only when the bridge thread has terminated before shutdown     *)
(* was requested.                                                           *)

\* every sender of the watcher channel is gone and nothing waits in it
WatcherChannelClosed == life.bridge \in {"done", "dead"} /\ watcherQ = <<>>

FailsFast == (life.worker = "loop" /\ WatcherChannelClosed) ~> (life.worker # "loop")

BridgeEndedBeforeShutdown == life.sender \/ life.at_drop = "done"

----------------------------------------------------------------------------
(* A rename on disk (tests/vfs.rs:284): the file src becomes dst, a path    *)
(* where no file is.  The platform reports it as one Rename event when the  *)
(* directories of both paths are watched.  life.renamed records the two     *)
(* paths and whether src was then a live file of the Vfs.                   *)

\* path resolves, as a file, to a live file of the Vfs
Tracked(path) ==
    \E found \in {Roots_find(path, File)} :
        IsSome(found) /\ LiveAt(Vfs, Unwrap(found)[1], Unwrap(found)[2]) # {}

DiskRename(src, dst) ==
    /\ Input
    /\ life.renamed = <<>>
    /\ is_file(src)
    /\ ~is_file(dst)
    /\ Parent(dst) \in dirs
    /\ disk' = [disk EXCEPT ![src] = None, ![dst] = disk[src]]
    /\ life' = [life EXCEPT
                  !.renamed = <<src, dst, Tracked(src)>>,
                  !.notifyQ = IF Parent(src) \in watched /\ Parent(dst) \in watched
                              THEN Append(@, DebouncedEvent("Rename", src, dst))
                              ELSE @]
    /\ Len(life'.notifyQ) <= MaxNotify
    /\ last' = NoOp
    /\ UNCHANGED <<roots, files, root2files, pending_changes, cmdQ, watcherQ, taskQ,
                   dirs, watched, panicked>>

NextRename ==
    \/ WorkerAddRoot
    \/ HandleTask
    \/ CommitChanges
    \/ BridgeForward
    \/ WorkerHandleChange
    \/ \E src \in DiskFiles, dst \in DiskFiles : DiskRename(src, dst)

SpecRename == InitWatching /\ [][NextRename]_vars


----------------------------------------------------------------------------
(* C29.  The bridge forwards raw Create, Write and Remove events unchanged, *)
(* turns Rename(src, dst) into Remove(src) followed by Create(dst), and     *)
(* forwards nothing for the other kinds.  Consequently a delivered rename   *)
(* of a tracked, non-overlayed file yields RemoveFile(src) before           *)
(* AddFile(dst) with the same text, the destination getting a new FileId:   *)
(* when AddFile(dst) is logged, the source is no longer a live file.        *)

\* what the claim has the bridge send for a raw event
Forwarded(event) ==
    IF event.kind \in {Create, Write, Remove} THEN << <<event.path, event.kind>> >>
    ELSE IF event.kind = "Rename"
    THEN << <<event.path, Remove>>, <<event.dst, Create>> >>
    ELSE <<>>

\* the bridge thread takes the raw event at the head of its channel
Forwards ==
    /\ life.notifyQ # <<>>
    /\ life'.notifyQ = Tail(life.notifyQ)
    /\ life'.bridge = "run"

\* the step logs the AddFile of the destination of the rename
AddsRenamed(change) ==
    /\ life.renamed # <<>>
    /\ life.renamed[3]
    /\ change.kind = "AddFile"
    /\ Roots_find(life.renamed[2], File) = Some(<<change.root, change.path>>)

C29_Step ==
    /\ Forwards => watcherQ' = watcherQ \o Forwarded(Head(life.notifyQ))
    /\ \A i \in 1..Len(Added) :
          AddsRenamed(Added[i]) =>
              /\ \A found \in {Roots_find(life.renamed[1], File)} :
                    LiveAt(VfsNext, Unwrap(found)[1], Unwrap(found)[2]) = {}
              /\ Added[i].file = Len(files)
              /\ Some(Added[i].text) = OnDisk(Added[i].root, Added[i].path)

C29_RenameIsRemoveThenAdd == [][C29_Step]_vars


----------------------------------------------------------------------------
(* The Watch toggle (section 4.E of the specification; the repository's     *)
(* tests use Watch and notify_changed, its sources do not have them).       *)
(* With Watch(false) the worker has no watcher and subscribes nothing;      *)
(* notify_changed(path) hands the worker a synthesized Write event.         *)

\* io::start with Watch(false): as Running, without a watcher
NoWatch == [Running EXCEPT !.watcher = "none"]

InitNoWatch ==
    /\ \E fa \in Filters, fb \in Filters : roots = Roots_new(RootEntries(fa, fb))
    /\ files = <<>>
    /\ root2files = [r \in RootIds |-> {}]
    /\ pending_changes = <<>>
    /\ cmdQ = [i \in 1..Roots_len |-> i - 1]
    /\ watcherQ = <<>>
    /\ taskQ = <<>>
    /\ disk = [f \in DiskFiles |-> None]
    /\ dirs = {PathA, PathAB}
    /\ watched = {}
    /\ panicked = FALSE
    /\ inputs = 0
    /\ life = NoWatch
    /\ last = NoOp

NotifyChanged(path) ==
    /\ ~panicked
    /\ Input
    /\ Len(watcherQ) < MaxEvents
    /\ watcherQ' = Append(watcherQ, <<path, Write>>)
    /\ last' = Called("notify_changed", path, <<>>, <<>>)
    /\ UNCHANGED <<life, roots, files, root2files, pending_changes, cmdQ, taskQ,
                   disk, dirs, watched, panicked>>

NextNoWatch ==
    \/ WorkerAddRoot
    \/ HandleTask
    \/ CommitChanges
    \/ WorkerHandleChange
    \/ \E path \in DiskFiles, text \in DiskTexts : DiskWrite(path, text)
    \/ \E path \in ApiPaths : NotifyChanged(path)

SpecNoWatch == InitNoWatch /\ [][NextNoWatch]_vars

----------------------------------------------------------------------------
(* C26.  With Watch = false there is no platform subscription, and a disk   *)
(* write produces no event and no task by itself.  notify_changed(path)     *)
(* gives the worker a synthesized Write event for the path; for a file on   *)
(* disk that resolves the worker answers it with exactly one task, and the  *)
(* task, when its text is not what the controller holds for the file,       *)
(* yields exactly one change.                                               *)

\* the step handles a SingleFile task whose text the controller does not hold
BringsNews(task) ==
    /\ Handles(task)
    /\ task.kind = "SingleFile"
    /\ IsSome(task.text)
    /\ \A f \in LiveAt(Vfs, task.root, task.path) : file_data(Vfs, f).text # Unwrap(task.text)

C26_Step ==
    /\ watched' = {}
    /\ disk' # disk => (watcherQ' = watcherQ /\ taskQ' = taskQ)
    /\ IsCall("notify_changed") =>
          (watcherQ' = Append(watcherQ, <<last'.path, Write>>) /\ taskQ' = taskQ)
    /\ watcherQ # <<>> =>
          \A ev \in {Head(watcherQ)} :
              (HandlesChange /\ is_file(ev[1]) /\ IsSome(Roots_find(ev[1], File))) =>
                  /\ Len(Emitted) = 1
                  /\ Emitted[1].kind = "SingleFile"
                  /\ <<Emitted[1].root, Emitted[1].path>> = Unwrap(Roots_find(ev[1], File))
                  /\ Emitted[1].text = OnDisk(Emitted[1].root, Emitted[1].path)
    /\ taskQ # <<>> => (BringsNews(Head(taskQ)) => Len(Added) = 1)

C26_NotifyChangedOnly == [][C26_Step]_vars

\* the controller has taken up a file's new content that reached it through
\* notify_changed, and holds what is on disk
C26_Witness ==
    /\ watched = {}
    /\ last.op = "handle_task"
    /\ Unwrap(last.task).kind = "SingleFile"
    /\ pending_changes # <<>>
    /\ Last(pending_changes).kind = "ChangeFile"
    /\ Some(Last(pending_changes).text)
         = OnDisk(Unwrap(last.task).root, Unwrap(last.task).path)


----------------------------------------------------------------------------
(* Roots::find on any registry and any path.                                *)

\* A registry is built from at most this many root entries.
MaxFindRoots == 3

\* the roots of tests/vfs.rs and the symbolic link, each with either filter
FindEntries ==
    { [path |-> p, filter |-> f] : p \in {PathA, PathAB, PathLink}, f \in Filters }

FindEntryLists == UNION { [1..n -> FindEntries] : n \in 0..MaxFindRoots }

\* the paths looked up: the roots, files and directories beneath them, the
\* link and a path beneath it, and a path outside every root
FindPaths ==
    {PathA, PathAB, PathLink, FileHidden, FileAuthor, FileNested, FileOutside,
     <<"a", ".h">>, <<"linked", "b">>}

\* the registry of a Vfs built by Vfs::new, nothing loaded yet
InitFind ==
    /\ \E entries \in FindEntryLists : roots = Roots_new(entries)
    /\ files = <<>>
    /\ root2files = [r \in RootIds |-> {}]
    /\ pending_changes = <<>>
    /\ cmdQ = <<>>
    /\ watcherQ = <<>>
    /\ taskQ = <<>>
    /\ disk = [f \in DiskFiles |-> None]
    /\ dirs = {}
    /\ watched = {}
    /\ panicked = FALSE
    /\ inputs = 0
    /\ last = NoOp
    /\ life = Running

\* self.roots.find(path, expected): last.text holds the expected FileType and
\* last.ret the Option<(VfsRoot, RelativePathBuf)> returned
Find(path, expected) ==
    /\ last' = Called("find", path, expected, Roots_find(path, expected))
    /\ UNCHANGED <<life, roots, files, root2files, pending_changes, cmdQ, watcherQ,
                   taskQ, disk, dirs, watched, panicked, inputs>>

NextFind == \E path \in FindPaths, expected \in {File, Dir} : Find(path, expected)

SpecFind == InitFind /\ [][NextFind]_vars

----------------------------------------------------------------------------
(* C31.  Roots::find returns at most one root: none when no root has its    *)
(* path or canonical path as a prefix of the given path and accepts the     *)
(* relative path, else one of these roots, and of these one with the        *)
(* longest root path, with the path relative to it.  When the given path    *)
(* is the path of a root, find returns a root with that path and the empty  *)
(* relative path, whatever the filters say.                                 *)

\* the root's path and, when it differs, its canonical path
Bases(root) ==
    {Roots_path(root)} \cup
    { Unwrap(c) : c \in { Roots_root(root).canonical_path } \ {None} }

\* the paths of `path` relative to the root that the root accepts
AcceptedRels(root, path, expected) ==
    { rel \in { SubSeq(path, Len(base) + 1, Len(path)) :
                  base \in { b \in Bases(root) : IsPrefix(b, path) } } :
        rel = <<>> \/ is_included(Roots_root(root), rel, expected) }

Candidates(path, expected) ==
    { r \in RootIds : AcceptedRels(r, path, expected) # {} }

C31_FindMostSpecific ==
    last.op = "find" =>
        /\ last.ret = None <=> Candidates(last.path, last.text) = {}
        /\ IsSome(last.ret) =>
              /\ Unwrap(last.ret)[1] \in Candidates(last.path, last.text)
              /\ Unwrap(last.ret)[2]
                   \in AcceptedRels(Unwrap(last.ret)[1], last.path, last.text)
              /\ \A r \in Candidates(last.path, last.text) :
                     os_str_len(Roots_path(r)) <= os_str_len(Roots_path(Unwrap(last.ret)[1]))
        /\ (\E r \in RootIds : Roots_path(r) = last.path) =>
              /\ IsSome(last.ret)
              /\ Roots_path(Unwrap(last.ret)[1]) = last.path
              /\ Unwrap(last.ret)[2] = <<>>


----------------------------------------------------------------------------
(* C32.  The root index agrees with the file table.  In every state         *)
(* root2files has an entry for every root, every file's root is a root,     *)
(* every member of root2files[r] is a file of root r, and a file that is    *)
(* in no set is a tombstone (its path and text are empty).  In every step   *)
(* a file keeps its root, a new file is in its root's set, and a file       *)
(* leaves its root's set exactly when the step logs its RemoveFile; the     *)
(* file removed was in its root's set, which is what raw_remove_file        *)
(* asserts.                                                                 *)

\* the files whose RemoveFile the step appends to the log
Removed == { Added[i].file : i \in { j \in 1..Len(Added) : Added[j].kind = "RemoveFile" } }

C32_Indexed ==
    /\ DOMAIN root2files = RootIds
    /\ \A f \in FileIds(Vfs) : file_data(Vfs, f).root \in RootIds
    /\ \A r \in RootIds :
           root2files[r] \subseteq { f \in FileIds(Vfs) : file_data(Vfs, f).root = r }
    /\ \A f \in FileIds(Vfs) :
           f \notin root2files[file_data(Vfs, f).root] =>
               (file_data(Vfs, f).path = <<>> /\ file_data(Vfs, f).text = <<>>)

C32_Step ==
    /\ \A f \in FileIds(Vfs) :
           /\ f \in FileIds(VfsNext)
           /\ file_data(VfsNext, f).root = file_data(Vfs, f).root
           /\ f \in root2files'[file_data(Vfs, f).root]
                <=> (f \in root2files[file_data(Vfs, f).root] /\ f \notin Removed)
    /\ \A f \in FileIds(VfsNext) \ FileIds(Vfs) :
           f \in root2files'[file_data(VfsNext, f).root]
    /\ \A f \in Removed :
           f \in FileIds(Vfs) /\ f \in root2files[file_data(Vfs, f).root]

C32_RootIndexConsistent == []C32_Indexed /\ [][C32_Step]_vars

\* a file has been removed and another file has been added after it
C32_Witness ==
    \E f \in FileIds(Vfs), g \in FileIds(Vfs) :
        /\ f < g
        /\ f \notin LiveFiles(Vfs)
        /\ g \in root2files[file_data(Vfs, g).root]
        /\ file_data(Vfs, f).root = file_data(Vfs, g).root


----------------------------------------------------------------------------
(* C33.  When the platform watcher cannot be made, the worker keeps         *)
(* running without one: it never panics, it subscribes to no directory,     *)
(* every AddRoot command waiting in the channel is answered by a            *)
(* BulkLoadRoot for its root in the end, and once the Vfs is dropped both   *)
(* threads terminate.                                                       *)

WithoutWatcher == life.watcher = "none"

C33_RunsWithoutWatcher ==
    /\ [](WithoutWatcher => (life.worker # "dead" /\ watched = {}))
    /\ \A root \in 0..1 :
           (WithoutWatcher /\ CommandsIn(cmdQ, root) > 0)
               ~> (BulkLoadsIn(taskQ, root) > 0)
    /\ (WithoutWatcher /\ ~life.sender)
           ~> (life.worker = "done" /\ life.bridge = "done")


----------------------------------------------------------------------------
(* C34.  The change log is well formed for every file.  The log only grows  *)
(* between two commits, and a commit hands out all of it.  In every step:   *)
(* a file that the step creates is announced by an AddFile or an AddRoot    *)
(* entry of the step; a ChangeFile or RemoveFile names a file that existed  *)
(* before the step or that the step has announced before it; no change      *)
(* names a file removed in an earlier step, or removed by an earlier        *)
(* change of the same step; and the removed files grow by exactly the       *)
(* files whose RemoveFile the step logs, each logged once.                  *)

\* the files a change announces
Announces(c) ==
    IF c.kind = "AddRoot" THEN { c.files[i][1] : i \in 1..Len(c.files) }
    ELSE IF c.kind = "AddFile" THEN {c.file}
    ELSE {}

\* the files a change names
Names(c) == IF c.kind = "AddRoot" THEN Announces(c) ELSE {c.file}

Removes(c, f) == c.kind = "RemoveFile" /\ c.file = f

C34_Step ==
    /\ \/ IsPrefix(pending_changes, pending_changes')
       \/ /\ IsCall("commit_changes")
          /\ pending_changes' = <<>>
          /\ last'.ret = pending_changes
          /\ UNCHANGED <<files, root2files>>
    /\ \A f \in FileIds(VfsNext) \ FileIds(Vfs) :
           \E i \in 1..Len(Added) : f \in Announces(Added[i])
    /\ \A i \in 1..Len(Added) :
           \A f \in Names(Added[i]) :
               /\ f \in FileIds(VfsNext)
               /\ f \notin Tombstones(Vfs)
               /\ \A j \in 1..(i - 1) : ~Removes(Added[j], f)
               /\ Added[i].kind \in {"ChangeFile", "RemoveFile"} =>
                      \/ f \in FileIds(Vfs)
                      \/ \E j \in 1..(i - 1) : f \in Announces(Added[j])
    /\ Tombstones(VfsNext) = Tombstones(Vfs) \cup Removed

C34_LogWellFormed == [][C34_Step]_vars

\* the log holds the whole life of a file: its AddFile, then its RemoveFile
C34_Witness ==
    /\ Len(pending_changes) = 2
    /\ pending_changes[1].kind = "AddFile"
    /\ Removes(pending_changes[2], pending_changes[1].file)

====
